---- MODULE Spec2Model ----
(***************************************************************************)
(* Admission and state-tracking core of the reddit-tldr-bot:               *)
(*   tldr_runner.main        long-post TLDRs, milestone summaries and      *)
(*                           long-comment TLDRs, with the daily quota      *)
(*   check_inbox_replies     conversational replies to inbox items         *)
(*   check_for_summons       replies to comment and post summons           *)
(* Time is counted in ticks of 1/TicksPerHour hour.  A test of the source  *)
(* of the form (now - t) / 3600 < H is modelled exactly as                 *)
(* now - t < H * TicksPerHour.                                             *)
(***************************************************************************)
EXTENDS Integers, Sequences, FiniteSets, TLC

(* ------------------------------------------------------------------ *)
(* Program constants                                                   *)
(* ------------------------------------------------------------------ *)
WORD_THRESHOLD == 250
MAX_TLDR_PER_RUN == 1
MAX_TLDR_PER_DAY == 40
MAX_AGE_HOURS == 24
COMMENT_MILESTONES == <<20, 50, 100>>
ProcessedPostsKeep == 1000
ProcessedCommentsKeep == 2000
\* config.py, read by reply_handler.py and summon_handler.py
CONFIG_MAX_AGE_HOURS == 24
MAX_REPLIES_PER_RUN == 1
MAX_REPLIES_PER_DAY == 30
SAME_USER_COOLDOWN_HOURS == 1
SAME_USER_REPLIES_BEFORE_COOLDOWN == 2
MOD_CACHE_REFRESH_DAYS == 3
RepliedToKeep == 2000
SummonResponsesKeep == 2000

(* ------------------------------------------------------------------ *)
(* Bounds of the model                                                 *)
(* ------------------------------------------------------------------ *)
TicksPerHour == 2
NumPosts == 2
NumComments == 2
MaxHalfDays == 1
NumItems == 2
MaxTicks == 2
MaxCount == 110
LedgerKeep == 2
MaxIds == 4
MaxMarks == 3
MaxDays == 2
MaxSaves == 2

TicksPerDay == 24 * TicksPerHour
HalfDay == 12 * TicksPerHour
\* The clock starts at noon of day 2, so that one half-day step crosses midnight.
StartTime == 2 * TicksPerDay + HalfDay
NoDate == 0 - 1

Posts == 1 .. NumPosts
Comments == 1 .. NumComments
\* subreddit.new(limit): the listing, newest first.
posts_to_check == [k \in 1 .. NumPosts |-> k]
\* The submission a comment hangs under: the listed comments are one thread.
PostOf(c) == 1
\* submission.comments.list(): the comments of post p, in listing order.
RECURSIVE CommentsFrom(_, _)
CommentsFrom(p, c) ==
    IF c > NumComments THEN <<>>
    ELSE IF PostOf(c) = p THEN <<c>> \o CommentsFrom(p, c + 1)
    ELSE CommentsFrom(p, c + 1)
comments_list(p) == CommentsFrom(p, 1)

\* Word counts a body can have (count_words' result); 0 stands for an empty selftext.
WordChoices == {WORD_THRESHOLD - 1, WORD_THRESHOLD + 150}
\* What a listed comment can be.
CommentKinds == {"long", "short"}
\* The kinds with a body of WORD_THRESHOLD words or more that is not the bot's
\* own: by a user, by an account with a bot name (AutoModerator), by nobody
\* (comment.author is None: the account is gone, the body is still there).
LongKinds == {"long", "bot", "orphan"}
\* What a listed comment can be, its author told apart.
AuthorKinds == CommentKinds \cup LongKinds \cup {"deleted", "own"}
\* Persisted quota records of earlier invocations: <<daily_tldrs, daily_reset_date>>.
QuotaChoices ==
    { <<0, NoDate>>,
      <<5, StartTime \div TicksPerDay>>,
      <<MAX_TLDR_PER_DAY - 1, StartTime \div TicksPerDay>> }

\* Authors.  NoAuthor is a deleted account (item.author is None).
NoAuthor == "<none>"
bot_username == "Optimist_Prime"
\* subreddit.moderator(): the moderators Reddit lists.
RedditMods == {"ModUser"}
\* str.lower() on the names of the model.
Lower(name) == IF name = "ModUser" THEN "moduser" ELSE name
\* Items of the inbox stream and of the two summon streams are listed 1 .. NumItems.
Items == 1 .. NumItems
\* What the items of a stream are: the author and the kind of body.
\*   ok        a reply (inbox) or a summon phrase (summon streams)
\*   hostile   as ok, and a hostile pattern matches
\*   deleted   empty or '[deleted]' body
\*   other_sub an inbox reply from another subreddit
\*   plain     no summon phrase
InboxProfiles ==
    << [author |-> "alice", body |-> "ok"], [author |-> "ModUser", body |-> "ok"],
       [author |-> "helperbot", body |-> "ok"], [author |-> NoAuthor, body |-> "ok"],
       [author |-> "alice", body |-> "hostile"], [author |-> "alice", body |-> "deleted"],
       [author |-> "alice", body |-> "other_sub"] >>
SummonProfiles ==
    << [author |-> "alice", body |-> "ok"], [author |-> "ModUser", body |-> "ok"],
       [author |-> "helperbot", body |-> "ok"], [author |-> bot_username, body |-> "ok"],
       [author |-> "alice", body |-> "hostile"], [author |-> "alice", body |-> "deleted"],
       [author |-> "alice", body |-> "plain"] >>
\* created_utc of the items of the three reply streams: 23 hours before the start.
item_created == StartTime - 23 * TicksPerHour

VARIABLES
    now,                \* the clock, in ticks
    post_words,         \* per post: words of selftext
    post_created,       \* per post: created_utc
    num_comments,       \* per post: submission.num_comments
    comment_kind,       \* per comment: long / short / deleted / own / bot / orphan
    file,               \* data/tldr_state.json
    pc,                 \* position of the invocation
    dry_run,            \* args.dry_run
    state,              \* state dict of the running invocation (quota fields)
    processed_posts,    \* set(state["processed_posts"])
    processed_comments, \* set(state["processed_comments"])
    comment_summaries,  \* state["comment_summaries"], 0 for an absent key
    can_proceed,
    tldrs_generated,
    i,                  \* index into posts_to_check
    j,                  \* index into the current post's comments, 0 before the fetch
    \* history of the external calls
    replied,            \* the items whose reply() has returned, per stream
    genCalls,           \* text generator calls of this invocation (Phases 1 and 3)
    runReplies,         \* TLDR replies posted by this invocation (Phases 1 and 3)
    runSummaries,       \* discussion summaries emitted by this invocation (Phase 2)
    lastCheck,          \* the invocation's last check_daily_limit call: what it saw and answered
    \* reply_handler.py and summon_handler.py
    inbox_profile,      \* what the inbox items are
    summon_profile,     \* what the listed comments and posts of the summon scan are
    hstate,             \* the state dict handed to the handlers
    hpc,                \* position of the handler call
    h_dry_run,          \* dry_run of the handler call
    replied_to,         \* set(state["replied_to_comments"])
    summon_responses,   \* set(state["summon_responses"])
    recent_user_replies,\* state["recent_user_replies"] as the call holds it
    replies_sent,       \* replies_sent / summons_handled of the call
    idx,                \* index into the stream being scanned
    lastGate,           \* the last cooldown decision: who, what was on record, the answer
    cooldown_answer,    \* what the two copies of check_user_cooldown returned
    milestone_answer,   \* what get_next_milestone returned, and for which arguments
    mod_call,           \* the last call of get_cached_moderators or is_moderator on its own
    dry_record,         \* what a dry run wrote, kept to compare a live run with
    killed,             \* the items answered by invocations that were killed before save_state
    persist,            \* data/tldr_state.json as text, and the load_state / save_state working on it
    summarized,         \* the <<post, rung>> pairs a discussion summary has been emitted for, where kept
    ledger,             \* a dedup ledger on its own: the saved list, the set of the run, the marks
    stage,              \* the last call the bot's run has made: start, inbox, summons, tldr
    cooldown_skipped    \* the items passed over because of the cooldown and not marked since

vars == << now, post_words, post_created, num_comments, comment_kind, file, pc,
           dry_run, state, processed_posts, processed_comments, comment_summaries,
           can_proceed, tldrs_generated, i, j, replied,
           genCalls, runReplies, runSummaries, lastCheck,
           inbox_profile, summon_profile, cooldown_answer, milestone_answer, mod_call, dry_record, killed, persist, summarized, ledger, stage, hstate, hpc,
           h_dry_run, replied_to,
           summon_responses, recent_user_replies, replies_sent, idx, lastGate,
           cooldown_skipped >>

envVars == << post_words, post_created, comment_kind >>
histVars == << replied, genCalls, runReplies, runSummaries >>
tldrVars == << post_words, post_created, num_comments, comment_kind, file, pc,
               dry_run, state, processed_posts, processed_comments, comment_summaries,
               can_proceed, tldrs_generated, i, j, lastCheck >>
\* replyVars without the history of the discussion summaries.
callVars == << inbox_profile, summon_profile, cooldown_answer, milestone_answer, mod_call, dry_record, killed, persist, ledger, stage, hstate, hpc, h_dry_run, replied_to,
                summon_responses, recent_user_replies, replies_sent, idx, lastGate , cooldown_skipped >>
replyVars == << inbox_profile, summon_profile, cooldown_answer, milestone_answer, mod_call, dry_record, killed, persist, summarized, ledger, stage, hstate, hpc, h_dry_run, replied_to,
                summon_responses, recent_user_replies, replies_sent, idx, lastGate , cooldown_skipped >>

(* ------------------------------------------------------------------ *)
(* Pure functions of tldr_runner.py                                    *)
(* ------------------------------------------------------------------ *)
\* date.today(), as a day number.
today == now \div TicksPerDay

is_too_old(created_utc) == (now - created_utc) > MAX_AGE_HOURS * TicksPerHour

RECURSIVE HighestCrossed(_, _, _)
HighestCrossed(comment_count, k, current_milestone) ==
    IF k > Len(COMMENT_MILESTONES) THEN current_milestone
    ELSE HighestCrossed(comment_count, k + 1,
            IF comment_count >= COMMENT_MILESTONES[k]
            THEN COMMENT_MILESTONES[k] ELSE current_milestone)

\* get_next_milestone returning whatever milestone differs from the recorded one.
get_next_milestone_any_change(comment_count, last_milestone) ==
    LET current_milestone == HighestCrossed(comment_count, 1, 0)
    IN IF current_milestone # last_milestone THEN current_milestone ELSE 0

\* get_next_milestone returning a milestone that is already recorded.
get_next_milestone_inclusive(comment_count, last_milestone) ==
    LET current_milestone == HighestCrossed(comment_count, 1, 0)
    IN IF current_milestone >= last_milestone THEN current_milestone ELSE 0

get_next_milestone(comment_count, last_milestone) ==
    LET current_milestone == HighestCrossed(comment_count, 1, 0)
    IN IF current_milestone > last_milestone THEN current_milestone ELSE 0

check_daily_limit_reset_always(st, day) ==
    LET st1 == [st EXCEPT !.daily_tldrs = 0, !.daily_reset_date = day]
    IN [can_proceed |-> st1.daily_tldrs < MAX_TLDR_PER_DAY, state |-> st1]

check_daily_limit_no_reset(st, day) ==
    [can_proceed |-> st.daily_tldrs < MAX_TLDR_PER_DAY, state |-> st]

check_daily_limit_no_cap(st, day) ==
    LET st1 == IF st.daily_reset_date # day
               THEN [st EXCEPT !.daily_tldrs = 0, !.daily_reset_date = day]
               ELSE st
    IN [can_proceed |-> TRUE, state |-> st1]

\* check_daily_limit(state), with date.today() passed in as day.
check_daily_limit(st, day) ==
    LET st1 == IF st.daily_reset_date # day
               THEN [st EXCEPT !.daily_tldrs = 0, !.daily_reset_date = day]
               ELSE st
    IN IF st1.daily_tldrs >= MAX_TLDR_PER_DAY
       THEN [can_proceed |-> FALSE, state |-> st1]
       ELSE [can_proceed |-> TRUE, state |-> st1]

\* list(s)[-n:] taken for list(s).
KeepLast_all(s, n) == {s}

\* set.add replaced by a toggle of the membership.
SetAdd_toggle(s, x) == IF x \in s THEN s \ {x} ELSE s \cup {x}

\* set.add(x)
SetAdd(s, x) == s \cup {x}

\* list(s)[-n:] of a set s: n of its elements, all of them when it has no more.
KeepLast(s, n) ==
    IF Cardinality(s) <= n THEN {s}
    ELSE { t \in SUBSET s : Cardinality(t) = n }

(* ------------------------------------------------------------------ *)
(* Pure functions of reply_handler.py and summon_handler.py            *)
(* ------------------------------------------------------------------ *)
\* dict.get(key, default)
Get(d, key, default) == IF key \in DOMAIN d THEN d[key] ELSE default

EmptyMap == [x \in {} |-> 0]

\* `not author_name`: None or the empty string.
NoName(author_name) == author_name = NoAuthor \/ author_name = ""

rh_is_too_old(created_utc) == (now - created_utc) > CONFIG_MAX_AGE_HOURS * TicksPerHour

\* BOT_INDICATORS against the lower-cased name: "bot" at a word end, or automod.
MatchesBotIndicator(author_name) == Lower(author_name) \in {"helperbot", "automoderator"}

\* is_likely_bot without the test for a missing name.
is_likely_bot_named_only(author_name) ==
    IF NoName(author_name) THEN FALSE ELSE MatchesBotIndicator(author_name)

is_likely_bot(author_name) ==
    IF NoName(author_name) THEN TRUE ELSE MatchesBotIndicator(author_name)

is_hostile_comment(body) == body = "hostile"

is_summon(body) == body \in {"ok", "hostile"}

rh_check_user_cooldown_no_window(author_name, recent_replies, t) ==
    IF NoName(author_name) \/ author_name \notin DOMAIN recent_replies THEN FALSE
    ELSE Get(recent_replies[author_name], "count", 0) >= SAME_USER_REPLIES_BEFORE_COOLDOWN

\* reply_handler.check_user_cooldown, with utcnow().timestamp() passed in as t.
rh_check_user_cooldown(author_name, recent_replies, t) ==
    IF NoName(author_name) \/ author_name \notin DOMAIN recent_replies THEN FALSE
    ELSE LET user_data == recent_replies[author_name]
             reply_count == Get(user_data, "count", 0)
             first_reply_time == Get(user_data, "first_reply_time", 0)
         IN IF reply_count < SAME_USER_REPLIES_BEFORE_COOLDOWN THEN FALSE
            ELSE (t - first_reply_time) < SAME_USER_COOLDOWN_HOURS * TicksPerHour

sh_check_user_cooldown_inclusive(author_name, recent_replies, t) ==
    IF NoName(author_name) \/ author_name \notin DOMAIN recent_replies THEN FALSE
    ELSE LET user_data == recent_replies[author_name]
             reply_count == Get(user_data, "count", 0)
             first_reply_time == Get(user_data, "first_reply_time", 0)
         IN IF reply_count < SAME_USER_REPLIES_BEFORE_COOLDOWN THEN FALSE
            ELSE (t - first_reply_time) <= SAME_USER_COOLDOWN_HOURS * TicksPerHour

\* summon_handler.check_user_cooldown.
sh_check_user_cooldown(author_name, recent_replies, t) ==
    IF NoName(author_name) \/ author_name \notin DOMAIN recent_replies THEN FALSE
    ELSE LET user_data == recent_replies[author_name]
             reply_count == Get(user_data, "count", 0)
             first_reply_time == Get(user_data, "first_reply_time", 0)
         IN IF reply_count < SAME_USER_REPLIES_BEFORE_COOLDOWN THEN FALSE
            ELSE (t - first_reply_time) < SAME_USER_COOLDOWN_HOURS * TicksPerHour

\* A failed refresh that forgets the cached list.
rh_get_cached_moderators_drop_stale(cache, t, fetch_ok) ==
    LET cache_max_age == MOD_CACHE_REFRESH_DAYS * 24 * TicksPerHour
    IN IF cache.moderators # {} /\ (t - cache.last_refresh) < cache_max_age
       THEN [mods |-> {Lower(m) : m \in cache.moderators}, cache |-> cache, called |-> FALSE]
       ELSE IF fetch_ok
       THEN [mods |-> {Lower(m) : m \in RedditMods},
             cache |-> [moderators |-> RedditMods, last_refresh |-> t], called |-> TRUE]
       ELSE [mods |-> {}, cache |-> [cache EXCEPT !.moderators = {}], called |-> TRUE]

\* A refresh that adds the fetched names to the cached ones.
rh_get_cached_moderators_merging(cache, t, fetch_ok) ==
    LET cache_max_age == MOD_CACHE_REFRESH_DAYS * 24 * TicksPerHour
    IN IF cache.moderators # {} /\ (t - cache.last_refresh) < cache_max_age
       THEN [mods |-> {Lower(m) : m \in cache.moderators}, cache |-> cache, called |-> FALSE]
       ELSE IF fetch_ok
       THEN [mods |-> {Lower(m) : m \in cache.moderators \cup RedditMods},
             cache |-> [moderators |-> cache.moderators \cup RedditMods, last_refresh |-> t],
             called |-> TRUE]
       ELSE [mods |-> {Lower(m) : m \in cache.moderators}, cache |-> cache, called |-> TRUE]

\* A failed refresh that resets last_refresh, to make the next call try again.
rh_get_cached_moderators_reset_on_error(cache, t, fetch_ok) ==
    LET cache_max_age == MOD_CACHE_REFRESH_DAYS * 24 * TicksPerHour
    IN IF cache.moderators # {} /\ (t - cache.last_refresh) < cache_max_age
       THEN [mods |-> {Lower(m) : m \in cache.moderators}, cache |-> cache, called |-> FALSE]
       ELSE IF fetch_ok
       THEN [mods |-> {Lower(m) : m \in RedditMods},
             cache |-> [moderators |-> RedditMods, last_refresh |-> t], called |-> TRUE]
       ELSE [mods |-> {Lower(m) : m \in cache.moderators},
             cache |-> [cache EXCEPT !.last_refresh = 0], called |-> TRUE]

\* get_cached_moderators(state, subreddit): the lower-cased moderator set, the
\* cache it leaves in state, and whether subreddit.moderator() was called;
\* fetch_ok says whether subreddit.moderator() returns.
\* An absent state["moderator_cache"] reads as no moderators, last_refresh 0.
rh_get_cached_moderators(cache, t, fetch_ok) ==
    LET cache_max_age == MOD_CACHE_REFRESH_DAYS * 24 * TicksPerHour
        last_refresh == cache.last_refresh
        mod_list == cache.moderators
    IN IF mod_list # {} /\ (t - last_refresh) < cache_max_age
       THEN [mods |-> {Lower(m) : m \in mod_list}, cache |-> cache, called |-> FALSE]
       ELSE IF fetch_ok
       THEN [mods |-> {Lower(m) : m \in RedditMods},
             cache |-> [moderators |-> RedditMods, last_refresh |-> t], called |-> TRUE]
       ELSE [mods |-> {Lower(m) : m \in mod_list}, cache |-> cache, called |-> TRUE]

\* The membership test without .lower() on the author's name.
rh_is_moderator_case_sensitive(author_name, cache, t, fetch_ok) ==
    IF NoName(author_name) THEN [is_mod |-> FALSE, cache |-> cache, called |-> FALSE]
    ELSE LET r == rh_get_cached_moderators(cache, t, fetch_ok)
         IN [is_mod |-> author_name \in r.mods, cache |-> r.cache, called |-> r.called]

\* is_moderator without the test for a missing name.
rh_is_moderator_consulting(author_name, cache, t, fetch_ok) ==
    LET r == rh_get_cached_moderators(cache, t, fetch_ok)
    IN [is_mod |-> ~NoName(author_name) /\ Lower(author_name) \in r.mods,
        cache |-> r.cache, called |-> r.called]

rh_is_moderator(author_name, cache, t, fetch_ok) ==
    IF NoName(author_name) THEN [is_mod |-> FALSE, cache |-> cache, called |-> FALSE]
    ELSE LET r == rh_get_cached_moderators(cache, t, fetch_ok)
         IN [is_mod |-> Lower(author_name) \in r.mods, cache |-> r.cache, called |-> r.called]

sh_get_cached_moderators(cache, t, fetch_ok) ==
    LET cache_max_age == MOD_CACHE_REFRESH_DAYS * 24 * TicksPerHour
        last_refresh == cache.last_refresh
        mod_list == cache.moderators
    IN IF mod_list # {} /\ (t - last_refresh) < cache_max_age
       THEN [mods |-> {Lower(m) : m \in mod_list}, cache |-> cache, called |-> FALSE]
       ELSE IF fetch_ok
       THEN [mods |-> {Lower(m) : m \in RedditMods},
             cache |-> [moderators |-> RedditMods, last_refresh |-> t], called |-> TRUE]
       ELSE [mods |-> {Lower(m) : m \in mod_list}, cache |-> cache, called |-> TRUE]

sh_is_moderator(author_name, cache, t, fetch_ok) ==
    IF NoName(author_name) THEN [is_mod |-> FALSE, cache |-> cache, called |-> FALSE]
    ELSE LET r == sh_get_cached_moderators(cache, t, fetch_ok)
         IN [is_mod |-> Lower(author_name) \in r.mods, cache |-> r.cache, called |-> r.called]

\* A reply after the window is over opens a new window for the user.
TrackReply_new_window(recent_replies, author_name, t) ==
    IF author_name \notin DOMAIN recent_replies
    THEN (author_name :> [count |-> 1, first_reply_time |-> t]) @@ recent_replies
    ELSE IF t - Get(recent_replies[author_name], "first_reply_time", 0)
              >= SAME_USER_COOLDOWN_HOURS * TicksPerHour
    THEN [recent_replies EXCEPT ![author_name] = [count |-> 1, first_reply_time |-> t]]
    ELSE [recent_replies EXCEPT ![author_name] =
             [@ EXCEPT !.count = Get(recent_replies[author_name], "count", 0) + 1]]

\* The record stamped anew by every reply.
TrackReply_restamp(recent_replies, author_name, t) ==
    IF author_name \notin DOMAIN recent_replies
    THEN (author_name :> [count |-> 1, first_reply_time |-> t]) @@ recent_replies
    ELSE [recent_replies EXCEPT ![author_name] =
             [count |-> Get(recent_replies[author_name], "count", 0) + 1,
              first_reply_time |-> t]]

\* The cooldown record after a successful reply to author_name (lines 217-221).
TrackReply(recent_replies, author_name, t) ==
    IF author_name \notin DOMAIN recent_replies
    THEN (author_name :> [count |-> 1, first_reply_time |-> t]) @@ recent_replies
    ELSE [recent_replies EXCEPT ![author_name] =
             [@ EXCEPT !.count = Get(recent_replies[author_name], "count", 0) + 1]]

(* ------------------------------------------------------------------ *)
(* Initial state                                                       *)
(* ------------------------------------------------------------------ *)
\* No check_daily_limit call has been made by the running invocation.
NoCheck == [count |-> 0, date |-> NoDate, day |-> NoDate, ok |-> FALSE]

\* subreddit.new lists the newest first: the first post is 2 hours old at the
\* start, each further one 12 hours older than the one before it.
post_created0 == [p \in Posts |-> StartTime - (2 + 12 * (p - 1)) * TicksPerHour]

TldrLocalsAtRest ==
    /\ pc = "idle"
    /\ dry_run = FALSE
    /\ state = [daily_tldrs |-> file.daily_tldrs, daily_reset_date |-> file.daily_reset_date]
    /\ processed_posts = {}
    /\ processed_comments = {}
    /\ comment_summaries = [p \in Posts |-> 0]
    /\ can_proceed = FALSE
    /\ tldrs_generated = 0
    /\ i = 1
    /\ j = 0
    /\ replied = {}
    /\ genCalls = 0
    /\ runReplies = 0
    /\ runSummaries = 0
    /\ lastCheck = NoCheck

TldrAtRest ==
    /\ post_created = post_created0
    /\ num_comments = [p \in Posts |-> 45]
    /\ comment_kind \in [Comments -> {"short"}]
    /\ file = [ processed_posts |-> {}, processed_comments |-> {},
                comment_summaries |-> [p \in Posts |-> 0],
                daily_tldrs |-> 0, daily_reset_date |-> NoDate ]
    /\ TldrLocalsAtRest

InitTldr ==
    /\ now = StartTime
    /\ post_words \in [Posts -> WordChoices]
    /\ post_created = post_created0
    /\ num_comments = [p \in Posts |-> 45]
    /\ comment_kind \in [Comments -> CommentKinds]
    /\ \E q \in QuotaChoices :
          file = [ processed_posts |-> {}, processed_comments |-> {},
                   comment_summaries |-> [p \in Posts |-> 0],
                   daily_tldrs |-> q[1], daily_reset_date |-> q[2] ]
    /\ TldrLocalsAtRest

\* The state dict handed to the first handler call: a fresh one (nothing replied,
\* no moderator cache), or one of a bot that has run all day.
HStateChoices ==
    { [ replied_to_comments |-> {}, summon_responses |-> {},
        recent_user_replies |-> EmptyMap, daily_replies |-> 0,
        moderator_cache |-> [moderators |-> {}, last_refresh |-> 0] ],
      [ replied_to_comments |-> {}, summon_responses |-> {},
        recent_user_replies |-> EmptyMap, daily_replies |-> MAX_REPLIES_PER_DAY - 1,
        moderator_cache |-> [moderators |-> RedditMods, last_refresh |-> StartTime] ] }

\* check_user_cooldown has not been called on its own.
NoAnswer == [rh |-> FALSE, sh |-> FALSE, called |-> FALSE]

\* Neither function has been called on its own.
NoModCall == [fn |-> "none"]

\* No dry run has been kept.
NoRecord == [made |-> FALSE]

\* The text of the state file is not looked at.
NoPersist == [pc |-> "off"]

\* No ledger is looked at on its own.
NoLedger == [file |-> {}, set |-> {}, active |-> FALSE, order |-> << >>, marks |-> 0, last |-> 0]

\* get_next_milestone has not been called on its own.
NoMilestone == [comment_count |-> 0, last_milestone |-> 0, result |-> 0, called |-> FALSE]

NoGate == [author |-> "", count |-> 0, first |-> 0, t |-> 0, is_mod |-> FALSE, skip |-> FALSE]

HandlersAtRest ==
    /\ hpc = "idle"
    /\ h_dry_run = FALSE
    /\ replied_to = {}
    /\ summon_responses = {}
    /\ recent_user_replies = EmptyMap
    /\ replies_sent = 0
    /\ idx = 1
    /\ lastGate = NoGate
    /\ cooldown_answer = NoAnswer
    /\ milestone_answer = NoMilestone
    /\ stage = "start"
    /\ ledger = NoLedger
    /\ mod_call = NoModCall
    /\ dry_record = NoRecord
    /\ killed = {}
    /\ summarized = {}
    /\ persist = NoPersist
    /\ cooldown_skipped = {}

\* The TLDR runner alone: the handlers are not called.
Init ==
    /\ InitTldr
    /\ inbox_profile = [author |-> "alice", body |-> "ok"]
    /\ summon_profile = [author |-> "alice", body |-> "ok"]
    /\ hstate = [ replied_to_comments |-> {}, summon_responses |-> {},
                  recent_user_replies |-> EmptyMap, daily_replies |-> 0,
                  moderator_cache |-> [moderators |-> {}, last_refresh |-> 0] ]
    /\ HandlersAtRest

\* What the inbox and the subreddit hold: the same kind of author and text on
\* both sides, one world per kind.
Worlds == { <<InboxProfiles[n], SummonProfiles[n]>> : n \in DOMAIN InboxProfiles }

\* The two handlers alone, called in any order any number of times.
InitReply ==
    /\ now = StartTime
    /\ post_words = [p \in Posts |-> WORD_THRESHOLD - 1]
    /\ TldrAtRest
    /\ \E w \in Worlds : inbox_profile = w[1] /\ summon_profile = w[2]
    /\ hstate \in HStateChoices
    /\ HandlersAtRest

(* ------------------------------------------------------------------ *)
(* The invocation of tldr_runner.main                                  *)
(* ------------------------------------------------------------------ *)
\* One call of check_daily_limit on st, and the record of it.
DoCheck(st) ==
    LET r == check_daily_limit(st, today)
    IN /\ state' = r.state
       /\ can_proceed' = r.can_proceed
       /\ lastCheck' = [count |-> st.daily_tldrs, date |-> st.daily_reset_date,
                        day |-> today, ok |-> r.can_proceed]

\* item.reply(...) has returned for this item of this stream.
ReplyReturns(item) == replied' = replied \cup {item}

\* main, lines 359-380: load the state, first quota check, fetch the listing.
StartRun ==
    /\ pc = "idle"
    /\ dry_run' \in BOOLEAN
    /\ processed_posts' = file.processed_posts
    /\ processed_comments' = file.processed_comments
    /\ comment_summaries' = file.comment_summaries
    /\ DoCheck([daily_tldrs |-> file.daily_tldrs, daily_reset_date |-> file.daily_reset_date])
    /\ tldrs_generated' = 0
    /\ genCalls' = 0
    /\ runReplies' = 0
    /\ runSummaries' = 0
    /\ i' = 1
    /\ j' = 0
    /\ pc' = IF can_proceed' THEN "phase1" ELSE "check2"
    /\ UNCHANGED << replyVars, now, envVars, num_comments, file, replied >>

\* The for loop of a phase moves to the next post, or ends.
NextPost(phase, after) ==
    IF i + 1 > NumPosts
    THEN /\ pc' = after
         /\ i' = 1
    ELSE /\ pc' = phase
         /\ i' = i + 1

\* The break taken for a continue.
ExitLoop_continue(after) == NextPost(pc, after)

ExitLoop(after) ==
    /\ pc' = after
    /\ i' = 1

Phase1Skip ==
    /\ pc = "phase1"
    /\ LET submission == posts_to_check[i]
       IN \/ is_too_old(post_created[submission])
          \/ submission \in processed_posts
          \/ post_words[submission] = 0
          \/ post_words[submission] < WORD_THRESHOLD
    /\ NextPost("phase1", "check2")
    /\ UNCHANGED << replyVars, now, envVars, num_comments, file, dry_run, state, processed_posts,
                    processed_comments, comment_summaries, can_proceed, tldrs_generated,
                    j, histVars, lastCheck >>

Phase1Eligible ==
    LET submission == posts_to_check[i]
    IN /\ pc = "phase1"
       /\ ~is_too_old(post_created[submission])
       /\ submission \notin processed_posts
       /\ post_words[submission] # 0
       /\ post_words[submission] >= WORD_THRESHOLD

\* A dry run that counts the post as a TLDR.
Phase1DryRun_counting ==
    /\ Phase1Eligible
    /\ dry_run
    /\ processed_posts' = processed_posts \cup {posts_to_check[i]}
    /\ tldrs_generated' = tldrs_generated + 1
    /\ state' = [state EXCEPT !.daily_tldrs = @ + 1]
    /\ NextPost("phase1", "check2")
    /\ UNCHANGED << replyVars, now, envVars, num_comments, file, dry_run,
                    processed_comments, comment_summaries, can_proceed,
                    j, histVars, lastCheck >>

Phase1DryRun ==
    /\ Phase1Eligible
    /\ dry_run
    /\ processed_posts' = processed_posts \cup {posts_to_check[i]}
    /\ NextPost("phase1", "check2")
    /\ UNCHANGED << replyVars, now, envVars, num_comments, file, dry_run, state,
                    processed_comments, comment_summaries, can_proceed, tldrs_generated,
                    j, histVars, lastCheck >>

\* generate_tldr or submission.reply raises: nothing is recorded, the loop goes on.
Phase1Fail ==
    /\ Phase1Eligible
    /\ ~dry_run
    /\ genCalls' = genCalls + 1
    /\ NextPost("phase1", "check2")
    /\ UNCHANGED << replyVars, now, envVars, num_comments, file, dry_run, state, processed_posts,
                    processed_comments, comment_summaries, can_proceed, tldrs_generated,
                    j, replied, runReplies, runSummaries, lastCheck >>

\* submission.reply returns and comment.mod.distinguish raises: the reply is
\* posted, and the except clause records nothing.
Phase1StickyFail ==
    /\ Phase1Eligible
    /\ ~dry_run
    /\ genCalls' = genCalls + 1
    /\ ReplyReturns(<<"post", posts_to_check[i]>>)
    /\ runReplies' = runReplies + 1
    /\ UNCHANGED runSummaries
    /\ NextPost("phase1", "check2")
    /\ UNCHANGED << replyVars, now, envVars, num_comments, file, dry_run, state, processed_posts,
                    processed_comments, comment_summaries, can_proceed, tldrs_generated,
                    j, lastCheck >>

\* A post TLDR that writes its dedup mark through to the state file at once.
Phase1Post_saving ==
    /\ Phase1Eligible
    /\ ~dry_run
    /\ genCalls' = genCalls + 1
    /\ ReplyReturns(<<"post", posts_to_check[i]>>)
    /\ runReplies' = runReplies + 1
    /\ UNCHANGED runSummaries
    /\ processed_posts' = processed_posts \cup {posts_to_check[i]}
    /\ file' = [file EXCEPT !.processed_posts = @ \cup {posts_to_check[i]}]
    /\ tldrs_generated' = tldrs_generated + 1
    /\ state' = [state EXCEPT !.daily_tldrs = @ + 1]
    /\ IF tldrs_generated' >= MAX_TLDR_PER_RUN
       THEN ExitLoop("check2")
       ELSE NextPost("phase1", "check2")
    /\ UNCHANGED << replyVars, now, envVars, num_comments, dry_run,
                    processed_comments, comment_summaries, can_proceed,
                    j, lastCheck >>

Phase1Post ==
    /\ Phase1Eligible
    /\ ~dry_run
    /\ genCalls' = genCalls + 1
    /\ ReplyReturns(<<"post", posts_to_check[i]>>)
    /\ runReplies' = runReplies + 1
    /\ UNCHANGED runSummaries
    /\ processed_posts' = processed_posts \cup {posts_to_check[i]}
    /\ tldrs_generated' = tldrs_generated + 1
    /\ state' = [state EXCEPT !.daily_tldrs = @ + 1]
    /\ IF tldrs_generated' >= MAX_TLDR_PER_RUN
       THEN ExitLoop("check2")
       ELSE NextPost("phase1", "check2")
    /\ UNCHANGED << replyVars, now, envVars, num_comments, file, dry_run,
                    processed_comments, comment_summaries, can_proceed,
                    j, lastCheck >>

\* Phase 2 and Phase 3 start with their own check_daily_limit (lines 436, 513).
Check2 ==
    /\ pc = "check2"
    /\ DoCheck(state)
    /\ pc' = IF can_proceed' THEN "phase2" ELSE "check3"
    /\ UNCHANGED << replyVars, now, envVars, num_comments, file, dry_run, processed_posts,
                    processed_comments, comment_summaries, tldrs_generated,
                    i, j, histVars >>

Phase2Skip ==
    /\ pc = "phase2"
    /\ LET submission == posts_to_check[i]
       IN \/ is_too_old(post_created[submission])
          \/ get_next_milestone(num_comments[submission], comment_summaries[submission]) = 0
    /\ NextPost("phase2", "check3")
    /\ UNCHANGED << replyVars, now, envVars, num_comments, file, dry_run, state, processed_posts,
                    processed_comments, comment_summaries, can_proceed, tldrs_generated,
                    j, histVars, lastCheck >>

next_milestone == get_next_milestone(num_comments[posts_to_check[i]],
                                     comment_summaries[posts_to_check[i]])

Phase2Eligible ==
    /\ pc = "phase2"
    /\ ~is_too_old(post_created[posts_to_check[i]])
    /\ next_milestone # 0

Phase2DryRun ==
    /\ Phase2Eligible
    /\ dry_run
    /\ comment_summaries' = [comment_summaries EXCEPT ![posts_to_check[i]] = next_milestone]
    /\ NextPost("phase2", "check3")
    /\ UNCHANGED << replyVars, now, envVars, num_comments, file, dry_run, state, processed_posts,
                    processed_comments, can_proceed, tldrs_generated,
                    j, histVars, lastCheck >>

\* The except clause and the two continues recording the milestone all the same.
Phase2NoSummary_advancing ==
    /\ Phase2Eligible
    /\ ~dry_run
    /\ comment_summaries' = [comment_summaries EXCEPT ![posts_to_check[i]] = next_milestone]
    /\ NextPost("phase2", "check3")
    /\ UNCHANGED << replyVars, now, envVars, num_comments, file, dry_run, state, processed_posts,
                    processed_comments, can_proceed, tldrs_generated,
                    j, histVars, lastCheck >>

\* No summary is produced: the comment fetch, the generator, find_bot_comment,
\* edit or reply raises, fewer than 5 top comments are listed, or no text comes back.
Phase2NoSummary ==
    /\ Phase2Eligible
    /\ ~dry_run
    /\ NextPost("phase2", "check3")
    /\ UNCHANGED << replyVars, now, envVars, num_comments, file, dry_run, state, processed_posts,
                    processed_comments, comment_summaries, can_proceed, tldrs_generated,
                    j, histVars, lastCheck >>

\* The new summary comment is posted and comment.mod.distinguish raises.
Phase2StickyFail ==
    /\ Phase2Eligible
    /\ ~dry_run
    /\ runSummaries' = runSummaries + 1
    /\ NextPost("phase2", "check3")
    /\ UNCHANGED << replyVars, now, envVars, num_comments, file, dry_run, state, processed_posts,
                    processed_comments, comment_summaries, can_proceed, tldrs_generated,
                    j, replied, genCalls, runReplies, lastCheck >>

\* The summary is edited into the bot's stickied comment, or posted and stickied.
Phase2Summary ==
    /\ Phase2Eligible
    /\ ~dry_run
    /\ comment_summaries' = [comment_summaries EXCEPT ![posts_to_check[i]] = next_milestone]
    /\ state' = [state EXCEPT !.daily_tldrs = @ + 1]
    /\ runSummaries' = runSummaries + 1
    /\ ExitLoop("check3")
    /\ UNCHANGED << replyVars, now, envVars, num_comments, file, dry_run, processed_posts,
                    processed_comments, can_proceed, tldrs_generated,
                    j, replied, genCalls, runReplies, lastCheck >>

\* The third block entering the long-post loop once more.
Check3_repeats_phase1 ==
    /\ pc = "check3"
    /\ DoCheck(state)
    /\ pc' = IF can_proceed' THEN "phase1" ELSE "save"
    /\ UNCHANGED << replyVars, now, envVars, num_comments, file, dry_run, processed_posts,
                    processed_comments, comment_summaries, tldrs_generated,
                    i, j, histVars >>

Check3 ==
    /\ pc = "check3"
    /\ DoCheck(state)
    /\ pc' = IF can_proceed' THEN "phase3" ELSE "save"
    /\ UNCHANGED << replyVars, now, envVars, num_comments, file, dry_run, processed_posts,
                    processed_comments, comment_summaries, tldrs_generated,
                    i, j, histVars >>

\* Phase 3, outer loop, lines 518-528: age, run cap, then the comment fetch.
Phase3PostSkip ==
    /\ pc = "phase3"
    /\ j = 0
    /\ is_too_old(post_created[posts_to_check[i]])
    /\ NextPost("phase3", "save")
    /\ UNCHANGED << replyVars, now, envVars, num_comments, file, dry_run, state, processed_posts,
                    processed_comments, comment_summaries, can_proceed, tldrs_generated,
                    j, histVars, lastCheck >>

Phase3RunCap ==
    /\ pc = "phase3"
    /\ j = 0
    /\ ~is_too_old(post_created[posts_to_check[i]])
    /\ tldrs_generated >= MAX_TLDR_PER_RUN
    /\ ExitLoop("save")
    /\ UNCHANGED << replyVars, now, envVars, num_comments, file, dry_run, state, processed_posts,
                    processed_comments, comment_summaries, can_proceed, tldrs_generated,
                    j, histVars, lastCheck >>

\* The inner loop moves to the next comment; after the last one the outer loop
\* tests the run cap (line 584) and moves to the next post.
NextComment(generated) ==
    IF j + 1 > Len(comments_list(posts_to_check[i]))
    THEN /\ j' = 0
         /\ IF generated >= MAX_TLDR_PER_RUN
            THEN ExitLoop("save")
            ELSE NextPost("phase3", "save")
    ELSE /\ j' = j + 1
         /\ pc' = "phase3"
         /\ i' = i

BreakComments(generated) ==
    /\ j' = 0
    /\ IF generated >= MAX_TLDR_PER_RUN
       THEN ExitLoop("save")
       ELSE NextPost("phase3", "save")

Phase3Fetch ==
    /\ pc = "phase3"
    /\ j = 0
    /\ ~is_too_old(post_created[posts_to_check[i]])
    /\ tldrs_generated < MAX_TLDR_PER_RUN
    /\ NextComment(tldrs_generated)
    /\ UNCHANGED << replyVars, now, envVars, num_comments, file, dry_run, state, processed_posts,
                    processed_comments, comment_summaries, can_proceed, tldrs_generated,
                    histVars, lastCheck >>

comment == comments_list(posts_to_check[i])[j]

\* A comment is created no earlier than its submission.
comment_created(c) == post_created[PostOf(c)]

Phase3Skip ==
    /\ pc = "phase3"
    /\ j > 0
    /\ \/ comment \in processed_comments
       \/ is_too_old(comment_created(comment))
       \/ comment_kind[comment] = "deleted"
       \/ comment_kind[comment] = "own"
       \/ comment_kind[comment] = "short"
    /\ NextComment(tldrs_generated)
    /\ UNCHANGED << replyVars, now, envVars, num_comments, file, dry_run, state, processed_posts,
                    processed_comments, comment_summaries, can_proceed, tldrs_generated,
                    histVars, lastCheck >>

Phase3Eligible ==
    /\ pc = "phase3"
    /\ j > 0
    /\ comment \notin processed_comments
    /\ ~is_too_old(comment_created(comment))
    /\ comment_kind[comment] \in LongKinds

Phase3DryRun ==
    /\ Phase3Eligible
    /\ dry_run
    /\ processed_comments' = processed_comments \cup {comment}
    /\ NextComment(tldrs_generated)
    /\ UNCHANGED << replyVars, now, envVars, num_comments, file, dry_run, state, processed_posts,
                    comment_summaries, can_proceed, tldrs_generated,
                    histVars, lastCheck >>

\* generate_comment_tldr or comment.reply raises.
Phase3Fail ==
    /\ Phase3Eligible
    /\ ~dry_run
    /\ genCalls' = genCalls + 1
    /\ NextComment(tldrs_generated)
    /\ UNCHANGED << replyVars, now, envVars, num_comments, file, dry_run, state, processed_posts,
                    processed_comments, comment_summaries, can_proceed, tldrs_generated,
                    replied, runReplies, runSummaries, lastCheck >>

Phase3Post ==
    /\ Phase3Eligible
    /\ ~dry_run
    /\ genCalls' = genCalls + 1
    /\ ReplyReturns(<<"comment", comment>>)
    /\ runReplies' = runReplies + 1
    /\ UNCHANGED runSummaries
    /\ processed_comments' = processed_comments \cup {comment}
    /\ tldrs_generated' = tldrs_generated + 1
    /\ state' = [state EXCEPT !.daily_tldrs = @ + 1]
    /\ IF tldrs_generated' >= MAX_TLDR_PER_RUN
       THEN BreakComments(tldrs_generated')
       ELSE NextComment(tldrs_generated')
    /\ UNCHANGED << replyVars, now, envVars, num_comments, file, dry_run, processed_posts,
                    comment_summaries, can_proceed,
                    lastCheck >>

\* main, lines 587-597: the state record is written back.
SaveState ==
    /\ pc = "save"
    /\ \E pp \in KeepLast(processed_posts, ProcessedPostsKeep),
          pcs \in KeepLast(processed_comments, ProcessedCommentsKeep) :
          file' = [ processed_posts |-> pp, processed_comments |-> pcs,
                    comment_summaries |-> comment_summaries,
                    daily_tldrs |-> state.daily_tldrs,
                    daily_reset_date |-> state.daily_reset_date ]
    /\ pc' = "idle"
    \* The process ends: its locals are gone.
    /\ dry_run' = FALSE
    /\ state' = [daily_tldrs |-> file'.daily_tldrs, daily_reset_date |-> file'.daily_reset_date]
    /\ processed_posts' = {}
    /\ processed_comments' = {}
    /\ comment_summaries' = [p \in Posts |-> 0]
    /\ can_proceed' = FALSE
    /\ tldrs_generated' = 0
    /\ genCalls' = 0
    /\ runReplies' = 0
    /\ runSummaries' = 0
    /\ lastCheck' = NoCheck
    /\ UNCHANGED << replyVars, now, envVars, num_comments, i, j, replied >>

(* ------------------------------------------------------------------ *)
(* check_inbox_replies(reddit, gemini_model, state, bot_username, dry_run) *)
(* ------------------------------------------------------------------ *)
worldVars == << inbox_profile, summon_profile, cooldown_answer, milestone_answer, mod_call, dry_record, killed, persist, summarized, ledger, stage >>

\* The record of one cooldown decision about author_name.
GateRecord(author_name, is_mod, skip) ==
    LET known == author_name \in DOMAIN recent_user_replies
    IN [ author |-> author_name,
         count |-> IF known THEN Get(recent_user_replies[author_name], "count", 0) ELSE 0,
         first |-> IF known THEN Get(recent_user_replies[author_name], "first_reply_time", 0) ELSE 0,
         t |-> now, is_mod |-> is_mod, skip |-> skip ]

\* The call returns: its locals are gone.
CallEnds ==
    /\ hpc' = "idle"
    /\ h_dry_run' = FALSE
    /\ replied_to' = {}
    /\ summon_responses' = {}
    /\ recent_user_replies' = EmptyMap
    /\ replies_sent' = 0
    /\ idx' = 1
    /\ lastGate' = NoGate
    /\ genCalls' = 0
    /\ runReplies' = 0
    /\ runSummaries' = 0

CallInbox ==
    /\ hpc = "idle"
    /\ hpc' = "inbox"
    /\ h_dry_run' \in BOOLEAN
    /\ replied_to' = hstate.replied_to_comments
    /\ recent_user_replies' = hstate.recent_user_replies
    /\ replies_sent' = 0
    /\ idx' = 1
    /\ UNCHANGED << tldrVars, worldVars, cooldown_skipped, now, replied, genCalls, runReplies, runSummaries, hstate,
                    summon_responses, lastGate >>

\* Lines 233-238: the state update that ends the call.
InboxUpdateState ==
    /\ \E kept \in KeepLast(replied_to, RepliedToKeep) :
          hstate' = [hstate EXCEPT !.replied_to_comments = kept,
                                   !.recent_user_replies = recent_user_replies,
                                   !.daily_replies = @ + replies_sent]
    /\ CallEnds
    /\ UNCHANGED << tldrVars, worldVars, cooldown_skipped, now, replied >>

\* Line 153: the per-run limit is hit with items still listed.
InboxBreak ==
    /\ hpc = "inbox"
    /\ idx <= NumItems
    /\ replies_sent >= MAX_REPLIES_PER_RUN
    /\ InboxUpdateState

InboxDone ==
    /\ hpc = "inbox"
    /\ idx > NumItems
    /\ InboxUpdateState

InboxAt ==
    /\ hpc = "inbox"
    /\ idx <= NumItems
    /\ replies_sent < MAX_REPLIES_PER_RUN

\* Lines 157-167: continue without a mark.
InboxSkip ==
    /\ InboxAt
    /\ \/ idx \in replied_to
       \/ rh_is_too_old(item_created)
       \/ inbox_profile.body = "other_sub"
    /\ idx' = idx + 1
    /\ UNCHANGED << tldrVars, worldVars, cooldown_skipped, now, replied, genCalls, runReplies, runSummaries, hstate, hpc,
                    h_dry_run, replied_to, summon_responses, recent_user_replies,
                    replies_sent, lastGate >>

InboxPastSkips ==
    /\ InboxAt
    /\ idx \notin replied_to
    /\ ~rh_is_too_old(item_created)
    /\ inbox_profile.body # "other_sub"

\* Lines 169-184: deleted body, bot-like author or hostile text: marked, no reply.
InboxTerminal ==
    /\ InboxPastSkips
    /\ \/ inbox_profile.body = "deleted"
       \/ is_likely_bot(inbox_profile.author)
       \/ is_hostile_comment(inbox_profile.body)
    /\ replied_to' = replied_to \cup {idx}
    /\ idx' = idx + 1
    /\ UNCHANGED << tldrVars, worldVars, cooldown_skipped, now, replied, genCalls, runReplies, runSummaries, hstate, hpc,
                    h_dry_run, summon_responses, recent_user_replies,
                    replies_sent, lastGate >>

InboxAtGate ==
    /\ InboxPastSkips
    /\ inbox_profile.body # "deleted"
    /\ ~is_likely_bot(inbox_profile.author)
    /\ ~is_hostile_comment(inbox_profile.body)

\* Line 187: not is_moderator(...) and check_user_cooldown(...).
InboxGate(fetch_ok) ==
    LET m == rh_is_moderator(inbox_profile.author, hstate.moderator_cache, now, fetch_ok)
    IN [ is_mod |-> m.is_mod, cache |-> m.cache,
         skip |-> ~m.is_mod /\ rh_check_user_cooldown(inbox_profile.author,
                                                      recent_user_replies, now) ]

\* The cooldown skip that marks the item like the skips before it.
InboxCooldownSkip_marking ==
    /\ InboxAtGate
    /\ \E fetch_ok \in BOOLEAN :
         LET g == InboxGate(fetch_ok)
         IN /\ g.skip
            /\ hstate' = [hstate EXCEPT !.moderator_cache = g.cache]
            /\ lastGate' = GateRecord(inbox_profile.author, g.is_mod, g.skip)
    /\ cooldown_skipped' = cooldown_skipped \cup {<<hpc, idx>>}
    /\ replied_to' = replied_to \cup {idx}
    /\ idx' = idx + 1
    /\ UNCHANGED << tldrVars, worldVars, now, replied, genCalls, runReplies, runSummaries, hpc,
                    h_dry_run, summon_responses, recent_user_replies,
                    replies_sent >>

InboxCooldownSkip ==
    /\ InboxAtGate
    /\ \E fetch_ok \in BOOLEAN :
         LET g == InboxGate(fetch_ok)
         IN /\ g.skip
            /\ hstate' = [hstate EXCEPT !.moderator_cache = g.cache]
            /\ lastGate' = GateRecord(inbox_profile.author, g.is_mod, g.skip)
    /\ cooldown_skipped' = cooldown_skipped \cup {<<hpc, idx>>}
    /\ idx' = idx + 1
    /\ UNCHANGED << tldrVars, worldVars, now, replied, genCalls, runReplies, runSummaries, hpc,
                    h_dry_run, replied_to, summon_responses, recent_user_replies,
                    replies_sent >>

InboxDryRun ==
    /\ InboxAtGate
    /\ h_dry_run
    /\ \E fetch_ok \in BOOLEAN :
         LET g == InboxGate(fetch_ok)
         IN /\ ~g.skip
            /\ hstate' = [hstate EXCEPT !.moderator_cache = g.cache]
            /\ lastGate' = GateRecord(inbox_profile.author, g.is_mod, g.skip)
    /\ replied_to' = replied_to \cup {idx}
    /\ cooldown_skipped' = cooldown_skipped \ {<<hpc, idx>>}
    /\ idx' = idx + 1
    /\ UNCHANGED << tldrVars, worldVars, now, replied, genCalls, runReplies, runSummaries, hpc,
                    h_dry_run, summon_responses, recent_user_replies, replies_sent >>

\* A failed reply counted like a sent one.
InboxFail_counting ==
    /\ InboxAtGate
    /\ ~h_dry_run
    /\ \E fetch_ok \in BOOLEAN :
         LET g == InboxGate(fetch_ok)
         IN /\ ~g.skip
            /\ hstate' = [hstate EXCEPT !.moderator_cache = g.cache]
            /\ lastGate' = GateRecord(inbox_profile.author, g.is_mod, g.skip)
    /\ genCalls' = genCalls + 1
    /\ replied_to' = replied_to \cup {idx}
    /\ recent_user_replies' = TrackReply(recent_user_replies, inbox_profile.author, now)
    /\ cooldown_skipped' = cooldown_skipped \ {<<hpc, idx>>}
    /\ idx' = idx + 1
    /\ UNCHANGED << tldrVars, worldVars, now, replied, runReplies, runSummaries, hpc,
                    h_dry_run, summon_responses, replies_sent >>

\* generate_conversational_response or item.reply raises: marked (line 228).
InboxFail ==
    /\ InboxAtGate
    /\ ~h_dry_run
    /\ \E fetch_ok \in BOOLEAN :
         LET g == InboxGate(fetch_ok)
         IN /\ ~g.skip
            /\ hstate' = [hstate EXCEPT !.moderator_cache = g.cache]
            /\ lastGate' = GateRecord(inbox_profile.author, g.is_mod, g.skip)
    /\ genCalls' = genCalls + 1
    /\ replied_to' = replied_to \cup {idx}
    /\ cooldown_skipped' = cooldown_skipped \ {<<hpc, idx>>}
    /\ idx' = idx + 1
    /\ UNCHANGED << tldrVars, worldVars, now, replied, runReplies, runSummaries, hpc,
                    h_dry_run, summon_responses, recent_user_replies, replies_sent >>

InboxReply ==
    /\ InboxAtGate
    /\ ~h_dry_run
    /\ \E fetch_ok \in BOOLEAN :
         LET g == InboxGate(fetch_ok)
         IN /\ ~g.skip
            /\ hstate' = [hstate EXCEPT !.moderator_cache = g.cache]
            /\ lastGate' = GateRecord(inbox_profile.author, g.is_mod, g.skip)
    /\ genCalls' = genCalls + 1
    /\ ReplyReturns(<<"inbox", idx>>)
    /\ runReplies' = runReplies + 1
    /\ UNCHANGED runSummaries
    /\ replied_to' = replied_to \cup {idx}
    /\ recent_user_replies' = TrackReply(recent_user_replies, inbox_profile.author, now)
    /\ replies_sent' = replies_sent + 1
    /\ cooldown_skipped' = cooldown_skipped \ {<<hpc, idx>>}
    /\ idx' = idx + 1
    /\ UNCHANGED << tldrVars, worldVars, now, hpc, h_dry_run, summon_responses >>

(* ------------------------------------------------------------------ *)
(* check_for_summons(subreddit, gemini_model, state, bot_username, dry_run) *)
(* The comment scan (lines 147-235) and the post scan (lines 237-318)   *)
(* are the same steps over two listings; a post's id is "post_" + id.   *)
(* ------------------------------------------------------------------ *)
SummonId(stream, n) == IF stream = "summon_posts" THEN <<"post_", n>> ELSE <<"c", n>>

CallSummons ==
    /\ hpc = "idle"
    /\ hpc' = "summon_comments"
    /\ h_dry_run' \in BOOLEAN
    /\ summon_responses' = hstate.summon_responses
    /\ recent_user_replies' = hstate.recent_user_replies
    /\ replies_sent' = 0
    /\ idx' = 1
    /\ UNCHANGED << tldrVars, worldVars, cooldown_skipped, now, replied, genCalls, runReplies, runSummaries, hstate,
                    replied_to, lastGate >>

\* Lines 320-325: the state update that ends the call.
SummonUpdateState ==
    /\ \E kept \in KeepLast(summon_responses, SummonResponsesKeep) :
          hstate' = [hstate EXCEPT !.summon_responses = kept,
                                   !.recent_user_replies = recent_user_replies,
                                   !.daily_replies = @ + replies_sent]
    /\ CallEnds
    /\ UNCHANGED << tldrVars, worldVars, cooldown_skipped, now, replied >>

\* The comment loop ends, by exhaustion or by the limit (line 153); the post scan
\* follows only under the limit (line 238).
SummonCommentsEnd ==
    /\ hpc = "summon_comments"
    /\ idx > NumItems \/ replies_sent >= MAX_REPLIES_PER_RUN
    /\ replies_sent < MAX_REPLIES_PER_RUN
    /\ hpc' = "summon_posts"
    /\ idx' = 1
    /\ UNCHANGED << tldrVars, worldVars, cooldown_skipped, now, replied, genCalls, runReplies, runSummaries, hstate,
                    h_dry_run, replied_to, summon_responses, recent_user_replies,
                    replies_sent, lastGate >>

SummonCommentsBreak ==
    /\ hpc = "summon_comments"
    /\ replies_sent >= MAX_REPLIES_PER_RUN
    /\ SummonUpdateState

SummonPostsEnd ==
    /\ hpc = "summon_posts"
    /\ idx > NumItems \/ replies_sent >= MAX_REPLIES_PER_RUN
    /\ SummonUpdateState

\* The scan without the test of lines 153 and 243.
SummonAt_no_cap(stream) ==
    /\ hpc = stream
    /\ idx <= NumItems

SummonAt(stream) ==
    /\ hpc = stream
    /\ idx <= NumItems
    /\ replies_sent < MAX_REPLIES_PER_RUN

\* Already processed, too old, the bot's own, deleted, or no summon phrase.
SummonSkip(stream) ==
    /\ SummonAt(stream)
    /\ \/ SummonId(stream, idx) \in summon_responses
       \/ rh_is_too_old(item_created)
       \/ summon_profile.author = bot_username
       \/ summon_profile.body = "deleted"
       \/ ~is_summon(summon_profile.body)
    /\ idx' = idx + 1
    /\ UNCHANGED << tldrVars, worldVars, cooldown_skipped, now, replied, genCalls, runReplies, runSummaries, hstate, hpc,
                    h_dry_run, replied_to, summon_responses, recent_user_replies,
                    replies_sent, lastGate >>

SummonPastSkips(stream) ==
    /\ SummonAt(stream)
    /\ SummonId(stream, idx) \notin summon_responses
    /\ ~rh_is_too_old(item_created)
    /\ summon_profile.author # bot_username
    /\ summon_profile.body # "deleted"
    /\ is_summon(summon_profile.body)

SummonTerminal(stream) ==
    /\ SummonPastSkips(stream)
    /\ \/ is_likely_bot(summon_profile.author)
       \/ is_hostile_comment(summon_profile.body)
    /\ summon_responses' = summon_responses \cup {SummonId(stream, idx)}
    /\ idx' = idx + 1
    /\ UNCHANGED << tldrVars, worldVars, cooldown_skipped, now, replied, genCalls, runReplies, runSummaries, hstate, hpc,
                    h_dry_run, replied_to, recent_user_replies, replies_sent, lastGate >>

SummonAtGate(stream) ==
    /\ SummonPastSkips(stream)
    /\ ~is_likely_bot(summon_profile.author)
    /\ ~is_hostile_comment(summon_profile.body)

SummonGate(fetch_ok) ==
    LET m == sh_is_moderator(summon_profile.author, hstate.moderator_cache, now, fetch_ok)
    IN [ is_mod |-> m.is_mod, cache |-> m.cache,
         skip |-> ~m.is_mod /\ sh_check_user_cooldown(summon_profile.author,
                                                      recent_user_replies, now) ]

SummonCooldownSkip(stream) ==
    /\ SummonAtGate(stream)
    /\ \E fetch_ok \in BOOLEAN :
         LET g == SummonGate(fetch_ok)
         IN /\ g.skip
            /\ hstate' = [hstate EXCEPT !.moderator_cache = g.cache]
            /\ lastGate' = GateRecord(summon_profile.author, g.is_mod, g.skip)
    /\ cooldown_skipped' = cooldown_skipped \cup {<<hpc, idx>>}
    /\ idx' = idx + 1
    /\ UNCHANGED << tldrVars, worldVars, now, replied, genCalls, runReplies, runSummaries, hpc,
                    h_dry_run, replied_to, summon_responses, recent_user_replies,
                    replies_sent >>

SummonDryRun(stream) ==
    /\ SummonAtGate(stream)
    /\ h_dry_run
    /\ \E fetch_ok \in BOOLEAN :
         LET g == SummonGate(fetch_ok)
         IN /\ ~g.skip
            /\ hstate' = [hstate EXCEPT !.moderator_cache = g.cache]
            /\ lastGate' = GateRecord(summon_profile.author, g.is_mod, g.skip)
    /\ summon_responses' = summon_responses \cup {SummonId(stream, idx)}
    /\ cooldown_skipped' = cooldown_skipped \ {<<hpc, idx>>}
    /\ idx' = idx + 1
    /\ UNCHANGED << tldrVars, worldVars, now, replied, genCalls, runReplies, runSummaries, hpc,
                    h_dry_run, replied_to, recent_user_replies, replies_sent >>

SummonFail(stream) ==
    /\ SummonAtGate(stream)
    /\ ~h_dry_run
    /\ \E fetch_ok \in BOOLEAN :
         LET g == SummonGate(fetch_ok)
         IN /\ ~g.skip
            /\ hstate' = [hstate EXCEPT !.moderator_cache = g.cache]
            /\ lastGate' = GateRecord(summon_profile.author, g.is_mod, g.skip)
    /\ genCalls' = genCalls + 1
    /\ summon_responses' = summon_responses \cup {SummonId(stream, idx)}
    /\ cooldown_skipped' = cooldown_skipped \ {<<hpc, idx>>}
    /\ idx' = idx + 1
    /\ UNCHANGED << tldrVars, worldVars, now, replied, runReplies, runSummaries, hpc,
                    h_dry_run, replied_to, recent_user_replies, replies_sent >>

SummonReply(stream) ==
    /\ SummonAtGate(stream)
    /\ ~h_dry_run
    /\ \E fetch_ok \in BOOLEAN :
         LET g == SummonGate(fetch_ok)
         IN /\ ~g.skip
            /\ hstate' = [hstate EXCEPT !.moderator_cache = g.cache]
            /\ lastGate' = GateRecord(summon_profile.author, g.is_mod, g.skip)
    /\ genCalls' = genCalls + 1
    /\ ReplyReturns(<<stream, idx>>)
    /\ runReplies' = runReplies + 1
    /\ UNCHANGED runSummaries
    /\ summon_responses' = summon_responses \cup {SummonId(stream, idx)}
    /\ recent_user_replies' = TrackReply(recent_user_replies, summon_profile.author, now)
    /\ replies_sent' = replies_sent + 1
    /\ cooldown_skipped' = cooldown_skipped \ {<<hpc, idx>>}
    /\ idx' = idx + 1
    /\ UNCHANGED << tldrVars, worldVars, now, hpc, h_dry_run, replied_to >>

SummonCommentSkip == SummonSkip("summon_comments")
SummonCommentTerminal == SummonTerminal("summon_comments")
SummonCommentCooldownSkip == SummonCooldownSkip("summon_comments")
SummonCommentDryRun == SummonDryRun("summon_comments")
SummonCommentFail == SummonFail("summon_comments")
SummonCommentReply == SummonReply("summon_comments")
SummonPostSkip == SummonSkip("summon_posts")
SummonPostTerminal == SummonTerminal("summon_posts")
SummonPostCooldownSkip == SummonCooldownSkip("summon_posts")
SummonPostDryRun == SummonDryRun("summon_posts")
SummonPostFail == SummonFail("summon_posts")
SummonPostReply == SummonReply("summon_posts")

(* ------------------------------------------------------------------ *)
(* The environment                                                     *)
(* ------------------------------------------------------------------ *)
\* Half a day passes, between invocations or between two phases of one.
Tick ==
    /\ pc \in {"idle", "check2"}
    /\ now + HalfDay <= StartTime + MaxHalfDays * HalfDay
    /\ now' = now + HalfDay
    /\ UNCHANGED << replyVars, envVars, num_comments, file, pc, dry_run, state, processed_posts,
                    processed_comments, comment_summaries, can_proceed, tldrs_generated,
                    i, j, histVars, lastCheck >>

\* One tick passes between two handler calls.
TickReply ==
    /\ hpc = "idle"
    /\ now + 1 <= StartTime + MaxTicks
    /\ now' = now + 1
    /\ UNCHANGED << tldrVars, replyVars, replied, genCalls, runReplies, runSummaries >>

Next ==
    \/ StartRun
    \/ Phase1Skip \/ Phase1DryRun \/ Phase1Fail \/ Phase1StickyFail \/ Phase1Post
    \/ Check2
    \/ Phase2Skip \/ Phase2DryRun \/ Phase2NoSummary \/ Phase2StickyFail \/ Phase2Summary
    \/ Check3
    \/ Phase3PostSkip \/ Phase3RunCap \/ Phase3Fetch
    \/ Phase3Skip \/ Phase3DryRun \/ Phase3Fail \/ Phase3Post
    \/ SaveState
    \/ Tick

Spec == Init /\ [][Next]_vars

(* ------------------------------------------------------------------ *)
(* check_user_cooldown on its own: the inputs are drawn, both copies    *)
(* are applied to them.                                                 *)
(* ------------------------------------------------------------------ *)
CooldownAuthors == {NoAuthor, "alice", "bob"}

\* What a user's entry may hold: both keys, or one of them missing.
CooldownEntries ==
    { [count |-> c, first_reply_time |-> StartTime - e] :
        c \in 0..(SAME_USER_REPLIES_BEFORE_COOLDOWN + 1),
        e \in 0..(SAME_USER_COOLDOWN_HOURS * TicksPerHour + 1) } \cup
    { [count |-> c] : c \in 0..(SAME_USER_REPLIES_BEFORE_COOLDOWN + 1) } \cup
    { [first_reply_time |-> StartTime - e] :
        e \in 0..(SAME_USER_COOLDOWN_HOURS * TicksPerHour + 1) }

CooldownMaps ==
    {EmptyMap} \cup
    { ("alice" :> e) : e \in CooldownEntries } \cup
    { ("alice" :> e) @@ ("ModUser" :> [count |-> 1, first_reply_time |-> StartTime]) :
        e \in CooldownEntries }

InitCooldown ==
    /\ now = StartTime
    /\ post_words = [p \in Posts |-> WORD_THRESHOLD - 1]
    /\ TldrAtRest
    /\ \E a \in CooldownAuthors : inbox_profile = [author |-> a, body |-> "ok"]
    /\ summon_profile = [author |-> "alice", body |-> "ok"]
    /\ hstate = [ replied_to_comments |-> {}, summon_responses |-> {},
                  recent_user_replies |-> EmptyMap, daily_replies |-> 0,
                  moderator_cache |-> [moderators |-> {}, last_refresh |-> 0] ]
    /\ hpc = "idle"
    /\ h_dry_run = FALSE
    /\ replied_to = {}
    /\ summon_responses = {}
    /\ recent_user_replies \in CooldownMaps
    /\ replies_sent = 0
    /\ idx = 1
    /\ lastGate = NoGate
    /\ cooldown_answer = NoAnswer
    /\ milestone_answer = NoMilestone
    /\ stage = "start"
    /\ ledger = NoLedger
    /\ mod_call = NoModCall
    /\ dry_record = NoRecord
    /\ killed = {}
    /\ summarized = {}
    /\ persist = NoPersist
    /\ cooldown_skipped = {}

CheckCooldown ==
    /\ ~cooldown_answer.called
    /\ cooldown_answer' =
          [ rh |-> rh_check_user_cooldown(inbox_profile.author, recent_user_replies, now),
            sh |-> sh_check_user_cooldown(inbox_profile.author, recent_user_replies, now),
            called |-> TRUE ]
    /\ UNCHANGED << tldrVars, now, replied, genCalls, runReplies, runSummaries,
                    inbox_profile, summon_profile, milestone_answer, mod_call, dry_record, killed, persist, summarized, ledger, stage, hstate, hpc,
                    h_dry_run, replied_to, summon_responses, recent_user_replies,
                    replies_sent, idx, lastGate, cooldown_skipped >>

SpecCooldown == InitCooldown /\ [][CheckCooldown]_vars

(* ------------------------------------------------------------------ *)
(* get_next_milestone on its own: the arguments are drawn, the function *)
(* is applied to them.                                                  *)
(* ------------------------------------------------------------------ *)
InitMilestone ==
    /\ now = StartTime
    /\ post_words = [p \in Posts |-> WORD_THRESHOLD - 1]
    /\ TldrAtRest
    /\ inbox_profile = [author |-> "alice", body |-> "ok"]
    /\ summon_profile = [author |-> "alice", body |-> "ok"]
    /\ hstate = [ replied_to_comments |-> {}, summon_responses |-> {},
                  recent_user_replies |-> EmptyMap, daily_replies |-> 0,
                  moderator_cache |-> [moderators |-> {}, last_refresh |-> 0] ]
    /\ hpc = "idle"
    /\ h_dry_run = FALSE
    /\ replied_to = {}
    /\ summon_responses = {}
    /\ recent_user_replies = EmptyMap
    /\ replies_sent = 0
    /\ idx = 1
    /\ lastGate = NoGate
    /\ cooldown_answer = NoAnswer
    /\ stage = "start"
    /\ ledger = NoLedger
    /\ mod_call = NoModCall
    /\ dry_record = NoRecord
    /\ killed = {}
    /\ summarized = {}
    /\ persist = NoPersist
    /\ cooldown_skipped = {}
    /\ \E c \in 0..MaxCount, w \in 0..MaxCount :
          milestone_answer = [comment_count |-> c, last_milestone |-> w,
                              result |-> 0, called |-> FALSE]

ApplyMilestone ==
    /\ ~milestone_answer.called
    /\ milestone_answer' =
          [milestone_answer EXCEPT
              !.result = get_next_milestone(milestone_answer.comment_count,
                                            milestone_answer.last_milestone),
              !.called = TRUE]
    /\ UNCHANGED << tldrVars, now, replied, genCalls, runReplies, runSummaries,
                    inbox_profile, summon_profile, cooldown_answer, mod_call, dry_record, killed, persist, summarized, ledger, stage, hstate, hpc,
                    h_dry_run, replied_to, summon_responses, recent_user_replies,
                    replies_sent, idx, lastGate, cooldown_skipped >>

SpecMilestone == InitMilestone /\ [][ApplyMilestone]_vars

(* ------------------------------------------------------------------ *)
(* Invocations of main over posts whose comment counts change: no post  *)
(* and no comment is long enough for a TLDR, so only Phase 2 acts.      *)
(* ------------------------------------------------------------------ *)
\* submission.num_comments as reddit reports it: below the first rung, on it, and
\* on the last one.
CountChoices == {19, 20, 100}

InitWatermark ==
    /\ now = StartTime
    /\ post_words = [p \in Posts |-> WORD_THRESHOLD - 1]
    /\ post_created = post_created0
    /\ num_comments \in [Posts -> CountChoices]
    /\ comment_kind = [c \in Comments |-> "short"]
    /\ file = [ processed_posts |-> {}, processed_comments |-> {},
                comment_summaries |-> [p \in Posts |-> 0],
                daily_tldrs |-> 0, daily_reset_date |-> NoDate ]
    /\ TldrLocalsAtRest
    /\ inbox_profile = [author |-> "alice", body |-> "ok"]
    /\ summon_profile = [author |-> "alice", body |-> "ok"]
    /\ hstate = [ replied_to_comments |-> {}, summon_responses |-> {},
                  recent_user_replies |-> EmptyMap, daily_replies |-> 0,
                  moderator_cache |-> [moderators |-> {}, last_refresh |-> 0] ]
    /\ HandlersAtRest

\* Between two invocations comments are written and removed: the counts the next
\* invocation reads at line 446 are others.
CommentCountChanges ==
    /\ pc = "idle"
    /\ num_comments' \in [Posts -> CountChoices]
    /\ num_comments' # num_comments
    /\ UNCHANGED << replyVars, now, envVars, file, pc, dry_run, state, processed_posts,
                    processed_comments, comment_summaries, can_proceed, tldrs_generated,
                    i, j, histVars, lastCheck >>

NextWatermark ==
    \/ StartRun
    \/ Phase1Skip
    \/ Check2
    \/ Phase2Skip \/ Phase2DryRun \/ Phase2NoSummary \/ Phase2StickyFail \/ Phase2Summary
    \/ Check3
    \/ Phase3PostSkip \/ Phase3Fetch \/ Phase3Skip
    \/ SaveState
    \/ Tick
    \/ CommentCountChanges

SpecWatermark == InitWatermark /\ [][NextWatermark]_vars

\* The same invocations with the history of the discussion summaries kept:
\* the two steps that emit a summary, each noting the post and the rung.
Phase2StickyFailLogged ==
    /\ Phase2Eligible
    /\ ~dry_run
    /\ runSummaries' = runSummaries + 1
    /\ summarized' = summarized \cup {<<posts_to_check[i], next_milestone>>}
    /\ NextPost("phase2", "check3")
    /\ UNCHANGED << callVars, now, envVars, num_comments, file, dry_run, state, processed_posts,
                    processed_comments, comment_summaries, can_proceed, tldrs_generated,
                    j, replied, genCalls, runReplies, lastCheck >>

Phase2SummaryLogged ==
    /\ Phase2Eligible
    /\ ~dry_run
    /\ comment_summaries' = [comment_summaries EXCEPT ![posts_to_check[i]] = next_milestone]
    /\ state' = [state EXCEPT !.daily_tldrs = @ + 1]
    /\ runSummaries' = runSummaries + 1
    /\ summarized' = summarized \cup {<<posts_to_check[i], next_milestone>>}
    /\ ExitLoop("check3")
    /\ UNCHANGED << callVars, now, envVars, num_comments, file, dry_run, processed_posts,
                    processed_comments, can_proceed, tldrs_generated,
                    j, replied, genCalls, runReplies, lastCheck >>

NextRungs ==
    \/ StartRun
    \/ Phase1Skip
    \/ Check2
    \/ Phase2Skip \/ Phase2DryRun \/ Phase2NoSummary \/ Phase2StickyFailLogged \/ Phase2SummaryLogged
    \/ Check3
    \/ Phase3PostSkip \/ Phase3Fetch \/ Phase3Skip
    \/ SaveState
    \/ Tick
    \/ CommentCountChanges

SpecRungs == InitWatermark /\ [][NextRungs]_vars

(* ------------------------------------------------------------------ *)
(* One run of the bot over all six streams: the inbox handler, the      *)
(* summon handler, then main, each called once.                         *)
(* ------------------------------------------------------------------ *)
InitOrder ==
    /\ now = StartTime
    /\ post_words = [p \in Posts |-> IF p = 1 THEN WORD_THRESHOLD + 150 ELSE WORD_THRESHOLD - 1]
    /\ post_created = post_created0
    /\ num_comments = [p \in Posts |-> IF p = 1 THEN 45 ELSE 19]
    /\ comment_kind \in [Comments -> CommentKinds]
    /\ file = [ processed_posts |-> {}, processed_comments |-> {},
                comment_summaries |-> [p \in Posts |-> 0],
                daily_tldrs |-> 0, daily_reset_date |-> NoDate ]
    /\ TldrLocalsAtRest
    /\ \E w \in Worlds : inbox_profile = w[1] /\ summon_profile = w[2]
    /\ hstate \in HStateChoices
    /\ HandlersAtRest

\* The run starts with the inbox replies.
OrderCallInbox ==
    /\ stage = "start"
    /\ stage' = "inbox"
    /\ hpc = "idle"
    /\ hpc' = "inbox"
    /\ h_dry_run' \in BOOLEAN
    /\ replied_to' = hstate.replied_to_comments
    /\ recent_user_replies' = hstate.recent_user_replies
    /\ replies_sent' = 0
    /\ idx' = 1
    /\ UNCHANGED << tldrVars, inbox_profile, summon_profile, cooldown_answer, milestone_answer, mod_call, dry_record, killed, persist, summarized, ledger,
                    cooldown_skipped, now, replied, genCalls, runReplies, runSummaries, hstate,
                    summon_responses, lastGate >>

\* When the inbox handler has returned, the summon scan is called with the state
\* the handler returned and the same dry-run flag.
OrderCallSummons ==
    /\ stage = "inbox"
    /\ stage' = "summons"
    /\ hpc = "idle"
    /\ hpc' = "summon_comments"
    /\ h_dry_run' \in BOOLEAN
    /\ summon_responses' = hstate.summon_responses
    /\ recent_user_replies' = hstate.recent_user_replies
    /\ replies_sent' = 0
    /\ idx' = 1
    /\ UNCHANGED << tldrVars, inbox_profile, summon_profile, cooldown_answer, milestone_answer, mod_call, dry_record, killed, persist, summarized, ledger,
                    cooldown_skipped, now, replied, genCalls, runReplies, runSummaries, hstate,
                    replied_to, lastGate >>

\* When the summon scan has returned, the three TLDR phases of main follow.
OrderStartRun ==
    /\ stage = "summons"
    /\ stage' = "tldr"
    /\ hpc = "idle"
    /\ pc = "idle"
    /\ dry_run' \in BOOLEAN
    /\ processed_posts' = file.processed_posts
    /\ processed_comments' = file.processed_comments
    /\ comment_summaries' = file.comment_summaries
    /\ DoCheck([daily_tldrs |-> file.daily_tldrs, daily_reset_date |-> file.daily_reset_date])
    /\ tldrs_generated' = 0
    /\ genCalls' = 0
    /\ runReplies' = 0
    /\ runSummaries' = 0
    /\ i' = 1
    /\ j' = 0
    /\ pc' = IF can_proceed' THEN "phase1" ELSE "check2"
    /\ UNCHANGED << inbox_profile, summon_profile, cooldown_answer, milestone_answer, mod_call, dry_record, killed, persist, summarized, ledger, hstate,
                    hpc,
                    h_dry_run, replied_to, summon_responses, recent_user_replies, replies_sent,
                    idx, lastGate, cooldown_skipped, now, envVars, num_comments, file, replied >>

NextOrder ==
    \/ OrderCallInbox \/ InboxBreak \/ InboxDone
    \/ InboxSkip \/ InboxTerminal
    \/ InboxDryRun \/ InboxFail \/ InboxReply
    \/ OrderCallSummons \/ SummonCommentsEnd \/ SummonCommentsBreak \/ SummonPostsEnd
    \/ SummonCommentSkip \/ SummonCommentTerminal
    \/ SummonCommentDryRun \/ SummonCommentFail \/ SummonCommentReply
    \/ SummonPostSkip \/ SummonPostTerminal
    \/ SummonPostDryRun \/ SummonPostFail \/ SummonPostReply
    \/ OrderStartRun
    \/ Phase1Skip \/ Phase1DryRun \/ Phase1Fail \/ Phase1StickyFail \/ Phase1Post
    \/ Check2
    \/ Phase2Skip \/ Phase2DryRun \/ Phase2NoSummary \/ Phase2StickyFail \/ Phase2Summary
    \/ Check3
    \/ Phase3PostSkip \/ Phase3RunCap \/ Phase3Fetch
    \/ Phase3Skip \/ Phase3DryRun \/ Phase3Fail \/ Phase3Post
    \/ SaveState
    \/ Tick

SpecOrder == InitOrder /\ [][NextOrder]_vars

\* The same run on a state file that already counts one TLDR for the day the
\* clock starts in: when half a day passes before main is called, the run
\* starts on a new day.
InitCounted ==
    /\ now = StartTime
    /\ post_words = [p \in Posts |-> IF p = 1 THEN WORD_THRESHOLD + 150 ELSE WORD_THRESHOLD - 1]
    /\ post_created = post_created0
    /\ num_comments = [p \in Posts |-> IF p = 1 THEN 45 ELSE 19]
    /\ comment_kind \in [Comments -> CommentKinds]
    /\ file = [ processed_posts |-> {}, processed_comments |-> {},
                comment_summaries |-> [p \in Posts |-> 0],
                daily_tldrs |-> 1, daily_reset_date |-> StartTime \div TicksPerDay ]
    /\ TldrLocalsAtRest
    /\ \E w \in Worlds : inbox_profile = w[1] /\ summon_profile = w[2]
    /\ hstate \in HStateChoices
    /\ HandlersAtRest

SpecCounted == InitCounted /\ [][NextOrder]_vars

(* ------------------------------------------------------------------ *)
(* main run twice on the same state file and the same listing at the    *)
(* same time: with --dry-run, then live with every external call        *)
(* succeeding. What the dry run saved is kept aside and the file put    *)
(* back before the live run starts.                                     *)
(* ------------------------------------------------------------------ *)
InitTwin ==
    /\ now = StartTime
    /\ post_words \in [Posts -> WordChoices]
    /\ post_created = post_created0
    /\ num_comments \in [Posts -> {19, 45}]
    /\ comment_kind \in [Comments -> CommentKinds]
    /\ \E q \in QuotaChoices :
          file = [ processed_posts |-> {}, processed_comments |-> {},
                   comment_summaries |-> [p \in Posts |-> 0],
                   daily_tldrs |-> q[1], daily_reset_date |-> q[2] ]
    /\ TldrLocalsAtRest
    /\ inbox_profile = [author |-> "alice", body |-> "ok"]
    /\ summon_profile = [author |-> "alice", body |-> "ok"]
    /\ hstate = [ replied_to_comments |-> {}, summon_responses |-> {},
                  recent_user_replies |-> EmptyMap, daily_replies |-> 0,
                  moderator_cache |-> [moderators |-> {}, last_refresh |-> 0] ]
    /\ HandlersAtRest

\* Time passes before the pair of runs, never between them.
TwinTick ==
    /\ stage = "start"
    /\ Tick

TwinStart(flag, from, to) ==
    /\ stage = from
    /\ stage' = to
    /\ pc = "idle"
    /\ dry_run' = flag
    /\ processed_posts' = file.processed_posts
    /\ processed_comments' = file.processed_comments
    /\ comment_summaries' = file.comment_summaries
    /\ DoCheck([daily_tldrs |-> file.daily_tldrs, daily_reset_date |-> file.daily_reset_date])
    /\ tldrs_generated' = 0
    /\ genCalls' = 0
    /\ runReplies' = 0
    /\ runSummaries' = 0
    /\ i' = 1
    /\ j' = 0
    /\ pc' = IF can_proceed' THEN "phase1" ELSE "check2"
    /\ UNCHANGED << inbox_profile, summon_profile, cooldown_answer, milestone_answer, mod_call,
                    dry_record, killed, persist, summarized, ledger, hstate, hpc,
                    h_dry_run, replied_to, summon_responses, recent_user_replies, replies_sent,
                    idx, lastGate, cooldown_skipped, now, envVars, num_comments, file, replied >>

TwinStartDry == TwinStart(TRUE, "start", "dry")

TwinStartLive == TwinStart(FALSE, "between", "live")

\* The end of a twin run. The dry run's lists go to dry_record and the file
\* stays as it was; the live run's lists go to the file.
TwinSave(from, to) ==
    /\ stage = from
    /\ stage' = to
    /\ pc = "save"
    /\ \E pp \in KeepLast(processed_posts, ProcessedPostsKeep),
          pcs \in KeepLast(processed_comments, ProcessedCommentsKeep) :
          LET saved == [ processed_posts |-> pp, processed_comments |-> pcs,
                         comment_summaries |-> comment_summaries,
                         daily_tldrs |-> state.daily_tldrs,
                         daily_reset_date |-> state.daily_reset_date ]
          IN IF dry_run
             THEN /\ dry_record' = [ made |-> TRUE, processed_posts |-> pp,
                                     processed_comments |-> pcs,
                                     comment_summaries |-> comment_summaries ]
                  /\ file' = file
             ELSE /\ dry_record' = dry_record
                  /\ file' = saved
    /\ pc' = "idle"
    /\ dry_run' = FALSE
    /\ state' = [daily_tldrs |-> file'.daily_tldrs, daily_reset_date |-> file'.daily_reset_date]
    /\ processed_posts' = {}
    /\ processed_comments' = {}
    /\ comment_summaries' = [p \in Posts |-> 0]
    /\ can_proceed' = FALSE
    /\ tldrs_generated' = 0
    /\ genCalls' = 0
    /\ runReplies' = 0
    /\ runSummaries' = 0
    /\ lastCheck' = NoCheck
    /\ UNCHANGED << inbox_profile, summon_profile, cooldown_answer, milestone_answer, mod_call,
                    killed, persist, summarized, ledger, hstate, hpc,
                    h_dry_run, replied_to, summon_responses, recent_user_replies, replies_sent,
                    idx, lastGate, cooldown_skipped, now, envVars, num_comments, i, j, replied >>

TwinSaveDry == TwinSave("dry", "between")

TwinSaveLive == TwinSave("live", "done")

NextTwin ==
    \/ TwinTick
    \/ TwinStartDry \/ TwinStartLive
    \/ Phase1Skip \/ Phase1DryRun \/ Phase1Post
    \/ Check2
    \/ Phase2Skip \/ Phase2DryRun \/ Phase2Summary
    \/ Check3
    \/ Phase3PostSkip \/ Phase3RunCap \/ Phase3Fetch
    \/ Phase3Skip \/ Phase3DryRun \/ Phase3Post
    \/ TwinSaveDry \/ TwinSaveLive

SpecTwin == InitTwin /\ [][NextTwin]_vars

(* ------------------------------------------------------------------ *)
(* main with its process killed at any point before save_state. Every   *)
(* external call succeeds: the kill is the only fault.                  *)
(* ------------------------------------------------------------------ *)
InitCrash ==
    /\ now = StartTime
    /\ post_words = [p \in Posts |-> IF p = 1 THEN WORD_THRESHOLD + 150 ELSE WORD_THRESHOLD - 1]
    /\ post_created = post_created0
    /\ num_comments = [p \in Posts |-> IF p = 1 THEN 45 ELSE 19]
    /\ comment_kind \in [Comments -> CommentKinds]
    /\ file = [ processed_posts |-> {}, processed_comments |-> {},
                comment_summaries |-> [p \in Posts |-> 0],
                daily_tldrs |-> 0, daily_reset_date |-> NoDate ]
    /\ TldrLocalsAtRest
    /\ inbox_profile = [author |-> "alice", body |-> "ok"]
    /\ summon_profile = [author |-> "alice", body |-> "ok"]
    /\ hstate = [ replied_to_comments |-> {}, summon_responses |-> {},
                  recent_user_replies |-> EmptyMap, daily_replies |-> 0,
                  moderator_cache |-> [moderators |-> {}, last_refresh |-> 0] ]
    /\ HandlersAtRest

\* The id of an answered item is in the lists of the state file.
RecordedInFile(item) ==
    IF item[1] = "post" THEN item[2] \in file.processed_posts
    ELSE item[2] \in file.processed_comments

\* The process is killed between the load of the state and save_state: its
\* locals are gone, the file is as it was, the replies it posted stay posted.
Crash ==
    /\ pc # "idle"
    /\ killed' = killed \cup {item \in replied : ~RecordedInFile(item)}
    /\ pc' = "idle"
    /\ dry_run' = FALSE
    /\ state' = [daily_tldrs |-> file.daily_tldrs, daily_reset_date |-> file.daily_reset_date]
    /\ processed_posts' = {}
    /\ processed_comments' = {}
    /\ comment_summaries' = [p \in Posts |-> 0]
    /\ can_proceed' = FALSE
    /\ tldrs_generated' = 0
    /\ genCalls' = 0
    /\ runReplies' = 0
    /\ runSummaries' = 0
    /\ lastCheck' = NoCheck
    /\ UNCHANGED << inbox_profile, summon_profile, cooldown_answer, milestone_answer, mod_call,
                    dry_record, persist, summarized, ledger, stage, hstate, hpc,
                    h_dry_run, replied_to, summon_responses, recent_user_replies, replies_sent,
                    idx, lastGate, cooldown_skipped, now, envVars, num_comments, file,
                    i, j, replied >>

NextCrash ==
    \/ StartRun
    \/ Phase1Skip \/ Phase1DryRun \/ Phase1Post
    \/ Check2
    \/ Phase2Skip \/ Phase2DryRun \/ Phase2Summary
    \/ Check3
    \/ Phase3PostSkip \/ Phase3RunCap \/ Phase3Fetch
    \/ Phase3Skip \/ Phase3DryRun \/ Phase3Post
    \/ SaveState
    \/ Tick
    \/ Crash

SpecCrash == InitCrash /\ [][NextCrash]_vars

(* ------------------------------------------------------------------ *)
(* load_state and save_state on the text of data/tldr_state.json. The   *)
(* text is a sequence of tokens: the braces and one token per top-level *)
(* key; version tells whose values the keys carry (0: the defaults).    *)
(* ------------------------------------------------------------------ *)
StateFields == << "last_check", "processed_posts", "processed_comments", "comment_summaries",
                 "daily_tldrs", "daily_reset_date", "stats" >>

\* json.dump of a dict with these keys.
Dump(keys) == << "{" >> \o keys \o << "}" >>

Keys(seq) == {seq[k] : k \in 1 .. Len(seq)}

\* json.load accepts the text.
ValidJson(text) == Len(text) >= 2 /\ text[1] = "{" /\ text[Len(text)] = "}"

KeysWithout(key) == SelectSeq(StateFields, LAMBDA f : f # key)

\* The dict load_state returns: the keys it has and whose values they are.
load_state(exists, readable, text, version) ==
    IF exists /\ readable /\ ValidJson(text)
    THEN [keys |-> Keys(SubSeq(text, 2, Len(text) - 1)), version |-> version]
    ELSE [keys |-> Keys(StateFields), version |-> 0]

\* The first subscript of main that finds no key: state["daily_tldrs"] in
\* check_daily_limit when the stored date is today's, state["stats"] before save_state.
MissingKey(keys, same_day) ==
    IF "daily_reset_date" \in keys /\ same_day /\ "daily_tldrs" \notin keys THEN "daily_tldrs"
    ELSE IF "stats" \notin keys THEN "stats"
    ELSE "none"

\* What the state file can be when an invocation starts: absent, complete,
\* unreadable, empty, cut short, or complete JSON without one of the keys.
DiskChoices ==
    { [exists |-> FALSE, readable |-> TRUE, text |-> << >>],
      [exists |-> TRUE, readable |-> TRUE, text |-> Dump(StateFields)],
      [exists |-> TRUE, readable |-> FALSE, text |-> Dump(StateFields)],
      [exists |-> TRUE, readable |-> TRUE, text |-> << >>],
      [exists |-> TRUE, readable |-> TRUE, text |-> << "{", "last_check", "processed_posts" >>],
      [exists |-> TRUE, readable |-> TRUE, text |-> Dump(KeysWithout("stats"))],
      [exists |-> TRUE, readable |-> TRUE, text |-> Dump(KeysWithout("daily_tldrs"))],
      [exists |-> TRUE, readable |-> TRUE, text |-> Dump(KeysWithout("processed_comments"))] }

NoLoad == [keys |-> {}, version |-> 0 - 1]

\* required_vars of main.
RequiredVars == { "REDDIT_CLIENT_ID", "REDDIT_CLIENT_SECRET", "REDDIT_USERNAME",
                  "REDDIT_PASSWORD", "GEMINI_API_KEY" }

\* The variables the environment holds with a non-empty value: all of them,
\* all but one, or none.
EnvChoices == {RequiredVars, {}} \cup {RequiredVars \ {v} : v \in RequiredVars}

\* A check that looks at the Reddit credentials only.
missing_reddit_only(env) == (RequiredVars \ {"GEMINI_API_KEY"}) \ env

\* missing = [v for v in required_vars if not os.environ.get(v)]
missing(env) == RequiredVars \ env

\* No exit code yet: the process runs.
Running == 0 - 1
\* The exit code of a process ended by SIGKILL.
Killed == 137

InitPersist ==
    /\ now = StartTime
    /\ post_words = [p \in Posts |-> WORD_THRESHOLD - 1]
    /\ TldrAtRest
    /\ inbox_profile = [author |-> "alice", body |-> "ok"]
    /\ summon_profile = [author |-> "alice", body |-> "ok"]
    /\ hstate = [ replied_to_comments |-> {}, summon_responses |-> {},
                  recent_user_replies |-> EmptyMap, daily_replies |-> 0,
                  moderator_cache |-> [moderators |-> {}, last_refresh |-> 0] ]
    /\ hpc = "idle"
    /\ h_dry_run = FALSE
    /\ replied_to = {}
    /\ summon_responses = {}
    /\ recent_user_replies = EmptyMap
    /\ replies_sent = 0
    /\ idx = 1
    /\ lastGate = NoGate
    /\ cooldown_answer = NoAnswer
    /\ milestone_answer = NoMilestone
    /\ stage = "start"
    /\ ledger = NoLedger
    /\ mod_call = NoModCall
    /\ dry_record = NoRecord
    /\ killed = {}
    /\ summarized = {}
    /\ cooldown_skipped = {}
    /\ \E d \in DiskChoices, env \in EnvChoices :
          persist = [ pc |-> "start", env |-> env, exit |-> Running, did |-> << >>,
                      exists |-> d.exists, readable |-> d.readable,
                      text |-> d.text, version |-> IF d.exists THEN 1 ELSE 0,
                      loaded |-> NoLoad, failed |-> "none", saves |-> 0,
                      before |-> [exists |-> d.exists, text |-> d.text,
                                  version |-> IF d.exists THEN 1 ELSE 0],
                      interrupted |-> FALSE ]

PersistFrame ==
    UNCHANGED << tldrVars, now, replied, genCalls, runReplies, runSummaries,
                 inbox_profile, summon_profile, cooldown_answer, milestone_answer, mod_call,
                 dry_record, killed, summarized, ledger,
                 stage, hstate, hpc, h_dry_run, replied_to, summon_responses, recent_user_replies,
                 replies_sent, idx, lastGate, cooldown_skipped >>

\* main, lines 336-356: the check of the environment, then the Reddit and
\* Gemini clients; sys.exit(1) when a required variable is missing.
CheckEnvironment ==
    /\ persist.pc = "start"
    /\ persist' = IF missing(persist.env) # {}
                  THEN [persist EXCEPT !.pc = "exited", !.exit = 1]
                  ELSE [persist EXCEPT !.pc = "connected", !.did = Append(@, "connect")]
    /\ PersistFrame

\* The workflow starts the next process.
NextInvocation ==
    /\ persist.pc = "exited"
    /\ persist' = [persist EXCEPT !.pc = "start", !.exit = Running, !.did = << >>,
                                  !.loaded = NoLoad, !.failed = "none"]
    /\ PersistFrame

\* main, line 360: state = load_state().
LoadState ==
    /\ persist.pc = "connected"
    /\ persist' = [persist EXCEPT
                     !.did = Append(@, "load"),
                     !.loaded = load_state(persist.exists, persist.readable, persist.text,
                                           persist.version),
                     !.failed = "none",
                     !.pc = "loaded"]
    /\ PersistFrame

\* main from check_daily_limit to the statistics update before save_state: it
\* ends with a KeyError at the first key it subscripts and does not find.
RunMain ==
    /\ persist.pc = "loaded"
    /\ \E same_day \in BOOLEAN :
          LET missing_key == MissingKey(persist.loaded.keys, same_day /\ persist.loaded.version # 0)
          IN persist' = [persist EXCEPT
                           !.failed = missing_key,
                           !.did = Append(@, "run"),
                           !.exit = IF missing_key = "none" THEN Running ELSE 1,
                           !.pc = IF missing_key = "none" THEN "save" ELSE "exited"]
    /\ PersistFrame

\* save_state, line 52: open(state_file, 'w') creates or empties the file.
SaveOpen ==
    /\ persist.pc = "save"
    /\ persist.saves < MaxSaves
    /\ persist' = [persist EXCEPT
                     !.before = [exists |-> persist.exists, text |-> persist.text,
                                 version |-> persist.version],
                     !.exists = TRUE, !.readable = TRUE,
                     !.text = << >>,
                     !.version = 2 + persist.saves,
                     !.saves = @ + 1,
                     !.interrupted = FALSE,
                     !.did = Append(@, "save"),
                     !.pc = "writing"]
    /\ PersistFrame

\* save_state, line 53: json.dump writes the text piece by piece.
SaveWrite ==
    /\ persist.pc = "writing"
    /\ Len(persist.text) < Len(Dump(StateFields))
    /\ persist' = [persist EXCEPT
                     !.text = Append(@, Dump(StateFields)[Len(persist.text) + 1])]
    /\ PersistFrame

\* save_state returns: the with block closes the file.
SaveClose ==
    /\ persist.pc = "writing"
    /\ persist.text = Dump(StateFields)
    /\ persist' = [persist EXCEPT !.pc = "exited", !.exit = 0]
    /\ PersistFrame

\* The process is killed, or the disk is full, while save_state is writing.
SaveInterrupted ==
    /\ persist.pc = "writing"
    /\ persist' = [persist EXCEPT !.pc = "exited", !.exit = Killed, !.interrupted = TRUE]
    /\ PersistFrame

NextPersist ==
    \/ CheckEnvironment \/ NextInvocation
    \/ LoadState \/ RunMain
    \/ SaveOpen \/ SaveWrite \/ SaveClose \/ SaveInterrupted

SpecPersist == InitPersist /\ [][NextPersist]_vars

(* ------------------------------------------------------------------ *)
(* main over comments of every kind of author.                          *)
(* ------------------------------------------------------------------ *)
InitAuthors ==
    /\ now = StartTime
    /\ post_words = [p \in Posts |-> IF p = 1 THEN WORD_THRESHOLD + 150 ELSE WORD_THRESHOLD - 1]
    /\ post_created = post_created0
    /\ num_comments = [p \in Posts |-> IF p = 1 THEN 45 ELSE 19]
    /\ comment_kind \in [Comments -> AuthorKinds]
    /\ file = [ processed_posts |-> {}, processed_comments |-> {},
                comment_summaries |-> [p \in Posts |-> 0],
                daily_tldrs |-> 0, daily_reset_date |-> NoDate ]
    /\ TldrLocalsAtRest
    /\ inbox_profile = [author |-> "alice", body |-> "ok"]
    /\ summon_profile = [author |-> "alice", body |-> "ok"]
    /\ hstate = [ replied_to_comments |-> {}, summon_responses |-> {},
                  recent_user_replies |-> EmptyMap, daily_replies |-> 0,
                  moderator_cache |-> [moderators |-> {}, last_refresh |-> 0] ]
    /\ HandlersAtRest

SpecAuthors == InitAuthors /\ [][Next]_vars

(* ------------------------------------------------------------------ *)
(* One dedup ledger on its own, as all four are handled: set(list) at   *)
(* the start of a run, set.add for a mark, list(set)[-K:] at its end.   *)
(* The ledger keeps LedgerKeep ids where the code keeps 1000 or 2000.   *)
(* ------------------------------------------------------------------ *)
LedgerIds == 1..MaxIds

\* seq without x.
RECURSIVE Without(_, _)
Without(seq, x) ==
    IF seq = << >> THEN << >>
    ELSE IF Head(seq) = x THEN Without(Tail(seq), x)
    ELSE << Head(seq) >> \o Without(Tail(seq), x)

InitLedger ==
    /\ now = StartTime
    /\ post_words = [p \in Posts |-> WORD_THRESHOLD - 1]
    /\ TldrAtRest
    /\ inbox_profile = [author |-> "alice", body |-> "ok"]
    /\ summon_profile = [author |-> "alice", body |-> "ok"]
    /\ hstate = [ replied_to_comments |-> {}, summon_responses |-> {},
                  recent_user_replies |-> EmptyMap, daily_replies |-> 0,
                  moderator_cache |-> [moderators |-> {}, last_refresh |-> 0] ]
    /\ hpc = "idle"
    /\ h_dry_run = FALSE
    /\ replied_to = {}
    /\ summon_responses = {}
    /\ recent_user_replies = EmptyMap
    /\ replies_sent = 0
    /\ idx = 1
    /\ lastGate = NoGate
    /\ cooldown_answer = NoAnswer
    /\ milestone_answer = NoMilestone
    /\ stage = "start"
    /\ cooldown_skipped = {}
    /\ ledger = NoLedger
    /\ mod_call = NoModCall
    /\ dry_record = NoRecord
    /\ killed = {}
    /\ summarized = {}
    /\ persist = NoPersist

LedgerFrame ==
    UNCHANGED << tldrVars, now, replied, genCalls, runReplies, runSummaries,
                 inbox_profile, summon_profile, cooldown_answer, milestone_answer, mod_call, dry_record, killed, persist, summarized,
                 stage, hstate, hpc, h_dry_run, replied_to, summon_responses, recent_user_replies,
                 replies_sent, idx, lastGate, cooldown_skipped >>

\* processed_posts = set(state.get("processed_posts", []))
LedgerLoad ==
    /\ ~ledger.active
    /\ ledger' = [ledger EXCEPT !.set = ledger.file, !.active = TRUE, !.marks = 0]
    /\ LedgerFrame

\* processed_posts.add(id): for a new id, and again for one that is in the set
\* (the except clause of check_inbox_replies after the add at line 216).
LedgerMark ==
    /\ ledger.active
    /\ ledger.marks < MaxMarks
    /\ \E x \in LedgerIds :
          ledger' = [ledger EXCEPT
                        !.set = SetAdd(ledger.set, x),
                        !.order = IF x \in ledger.set THEN ledger.order
                                  ELSE Append(Without(ledger.order, x), x),
                        !.marks = ledger.marks + 1,
                        !.last = x]
    /\ LedgerFrame

\* state["processed_posts"] = list(processed_posts)[-K:], and the run ends.
LedgerSave ==
    /\ ledger.active
    /\ \E kept \in KeepLast(ledger.set, LedgerKeep) :
          ledger' = [ledger EXCEPT !.file = kept, !.set = {}, !.active = FALSE]
    /\ LedgerFrame

NextLedger == LedgerLoad \/ LedgerMark \/ LedgerSave

SpecLedger == InitLedger /\ [][NextLedger]_vars

(* ------------------------------------------------------------------ *)
(* get_cached_moderators and is_moderator on their own, called again    *)
(* and again on one state dict while days pass.                         *)
(* ------------------------------------------------------------------ *)
\* state["moderator_cache"] before the first call: absent, a list fetched two
\* days ago (one tick less than two days ago), or the list fetched just now.
ModCacheChoices ==
    { [moderators |-> {}, last_refresh |-> 0],
      [moderators |-> {"alice"}, last_refresh |-> StartTime - 2 * TicksPerDay],
      [moderators |-> {"alice"}, last_refresh |-> StartTime - 2 * TicksPerDay + 1],
      [moderators |-> RedditMods, last_refresh |-> StartTime] }

ModAuthors == {NoAuthor, "", "alice", "ModUser", "moduser"}

InitModCache ==
    /\ now = StartTime
    /\ post_words = [p \in Posts |-> WORD_THRESHOLD - 1]
    /\ TldrAtRest
    /\ inbox_profile = [author |-> "alice", body |-> "ok"]
    /\ summon_profile = [author |-> "alice", body |-> "ok"]
    /\ \E c \in ModCacheChoices :
          hstate = [ replied_to_comments |-> {}, summon_responses |-> {},
                    recent_user_replies |-> EmptyMap, daily_replies |-> 0,
                    moderator_cache |-> c ]
    /\ HandlersAtRest

ModCacheFrame ==
    UNCHANGED << tldrVars, now, replied, genCalls, runReplies, runSummaries,
                 inbox_profile, summon_profile, cooldown_answer, milestone_answer, dry_record, killed, persist, summarized, ledger,
                 stage, hpc, h_dry_run, replied_to, summon_responses, recent_user_replies,
                 replies_sent, idx, lastGate, cooldown_skipped >>

GetModerators ==
    /\ \E fetch_ok \in BOOLEAN :
          LET r == rh_get_cached_moderators(hstate.moderator_cache, now, fetch_ok)
              q == sh_get_cached_moderators(hstate.moderator_cache, now, fetch_ok)
          IN /\ hstate' = [hstate EXCEPT !.moderator_cache = r.cache]
             /\ mod_call' = [fn |-> "get_cached_moderators", author |-> NoAuthor,
                             before |-> hstate.moderator_cache, t |-> now,
                             fetch_ok |-> fetch_ok, rh |-> r, sh |-> q]
    /\ ModCacheFrame

IsModerator ==
    /\ \E author_name \in ModAuthors, fetch_ok \in BOOLEAN :
          LET r == rh_is_moderator(author_name, hstate.moderator_cache, now, fetch_ok)
              q == sh_is_moderator(author_name, hstate.moderator_cache, now, fetch_ok)
          IN /\ hstate' = [hstate EXCEPT !.moderator_cache = r.cache]
             /\ mod_call' = [fn |-> "is_moderator", author |-> author_name,
                             before |-> hstate.moderator_cache, t |-> now,
                             fetch_ok |-> fetch_ok, rh |-> r, sh |-> q]
    /\ ModCacheFrame

\* A day passes between two calls.
TickDay ==
    /\ now + TicksPerDay <= StartTime + MaxDays * TicksPerDay
    /\ now' = now + TicksPerDay
    /\ UNCHANGED << tldrVars, replyVars, replied, genCalls, runReplies, runSummaries >>

NextModCache == GetModerators \/ IsModerator \/ TickDay

SpecModCache == InitModCache /\ [][NextModCache]_vars

NextReply ==
    \/ CallInbox \/ InboxBreak \/ InboxDone
    \/ InboxSkip \/ InboxTerminal \/ InboxCooldownSkip
    \/ InboxDryRun \/ InboxFail \/ InboxReply
    \/ CallSummons \/ SummonCommentsEnd \/ SummonCommentsBreak \/ SummonPostsEnd
    \/ SummonCommentSkip \/ SummonCommentTerminal \/ SummonCommentCooldownSkip
    \/ SummonCommentDryRun \/ SummonCommentFail \/ SummonCommentReply
    \/ SummonPostSkip \/ SummonPostTerminal \/ SummonPostCooldownSkip
    \/ SummonPostDryRun \/ SummonPostFail \/ SummonPostReply
    \/ TickReply

SpecReply == InitReply /\ [][NextReply]_vars

(* ------------------------------------------------------------------ *)
(* Properties                                                          *)
(* ------------------------------------------------------------------ *)
\* The item the invocation or the handler call is looking at.
CurrentItem ==
    IF pc = "phase1" THEN <<"post", posts_to_check[i]>>
    ELSE IF pc = "phase3" THEN <<"comment", comment>>
    ELSE <<hpc, idx>>

\* A step in which item.reply(...) returns for a TLDR or a conversational reply.
ReplyStep == runReplies' = runReplies + 1

\* A step in which a TLDR or a discussion summary is emitted.
EmitStep == runReplies' = runReplies + 1 \/ runSummaries' = runSummaries + 1

\* A step that runs check_daily_limit: lines 367, 436 and 513.
CheckStep == pc \in {"idle", "check2", "check3"} /\ pc' # pc

\* C1: over serialized invocations in which any external call may fail, reply()
\* never returns a second time for an item of a deduplicated stream (no id is
\* evicted within the bounds: the ledgers hold fewer than their 1000/2000 ids).
C1_AtMostOnceReply == [][ReplyStep => CurrentItem \notin replied]_vars

\* A post's TLDR reply is about to be posted a second time.
C1_SecondReplyDue ==
    /\ pc = "phase1"
    /\ Phase1Eligible
    /\ ~dry_run
    /\ <<"post", posts_to_check[i]>> \in replied

\* C2: while daily_tldrs >= MAX_TLDR_PER_DAY stands for the current date no phase
\* emits a TLDR or a summary, and daily_tldrs never exceeds MAX_TLDR_PER_DAY,
\* neither in the running invocation's state nor in the state file.
C2_DailyCap ==
    /\ [](state.daily_tldrs <= MAX_TLDR_PER_DAY /\ file.daily_tldrs <= MAX_TLDR_PER_DAY)
    /\ [][EmitStep => ~(state.daily_tldrs >= MAX_TLDR_PER_DAY
                        /\ state.daily_reset_date = today)]_vars

\* A live invocation that found the cap reached for today ends with nothing emitted.
C2_CapHeld ==
    /\ pc = "save"
    /\ ~dry_run
    /\ state.daily_tldrs = MAX_TLDR_PER_DAY
    /\ state.daily_reset_date = today
    /\ lastCheck.count = MAX_TLDR_PER_DAY
    /\ ~lastCheck.ok
    /\ runReplies = 0
    /\ runSummaries = 0

\* C3: once daily_replies has reached MAX_REPLIES_PER_DAY (the date does not
\* change within the bounds), neither handler sends a further reply.
C3_DailyReplyCap ==
    [][ReplyStep => hstate.daily_replies + replies_sent < MAX_REPLIES_PER_DAY]_vars

\* C4: a check_daily_limit call that finds a daily_reset_date other than today
\* leaves daily_tldrs = 0 and daily_reset_date = today and admits, whatever the
\* counter was (40 of 40 from yesterday included).
C4_DayBoundaryReset ==
    [][(CheckStep /\ lastCheck'.date # today)
         => /\ state'.daily_tldrs = 0
            /\ state'.daily_reset_date = today
            /\ can_proceed']_vars

\* The check has just admitted a state stamped yesterday with the counter at the cap.
C4_ResetFromCap ==
    /\ lastCheck.count = MAX_TLDR_PER_DAY
    /\ lastCheck.date # NoDate
    /\ lastCheck.date < lastCheck.day
    /\ lastCheck.ok
    /\ state.daily_tldrs = 0
    /\ state.daily_reset_date = lastCheck.day

\* C5: the counter is reset by a check exactly when the stamped date is not
\* today, and then the stamp is absent or earlier than today and becomes today, so
\* no second reset follows on that date; a check on the stamped date leaves counter
\* and stamp as they are; no other step lowers the counter or changes the stamp.
C5_ResetOncePerDate ==
    [][/\ (CheckStep /\ lastCheck'.date = today)
            => /\ state'.daily_tldrs = lastCheck'.count
               /\ state'.daily_reset_date = lastCheck'.date
       /\ (CheckStep /\ lastCheck'.date # today)
            => /\ lastCheck'.date = NoDate \/ lastCheck'.date < today
               /\ state'.daily_tldrs = 0
               /\ state'.daily_reset_date = today
       /\ ~CheckStep
            => /\ state'.daily_tldrs >= state.daily_tldrs
               /\ state'.daily_reset_date = state.daily_reset_date]_vars

\* A later check of the same date has found a non-zero counter and kept it.
C5_SameDateKept ==
    /\ pc = "phase3"
    /\ lastCheck.date = lastCheck.day
    /\ lastCheck.count > 0
    /\ state.daily_tldrs = lastCheck.count
    /\ state.daily_reset_date = today

\* C6: one invocation of the TLDR runner posts at most MAX_TLDR_PER_RUN TLDR
\* replies over Phase 1 and Phase 3 together.
C6_RunCap == pc # "idle" => runReplies <= MAX_TLDR_PER_RUN

\* One invocation has posted more TLDR replies than the run cap allows.
C6_SecondReplyInRun == pc # "idle" /\ runReplies > MAX_TLDR_PER_RUN

\* C7: one call of check_inbox_replies, and one call of check_for_summons over
\* comments and posts together, sends at most MAX_REPLIES_PER_RUN replies; with the
\* cap reached the next step ends the call, and the ids it stores are the ones
\* marked so far: nothing is marked for the items not reached.
C7_RunReplyCap ==
    /\ [](hpc # "idle" => runReplies <= MAX_REPLIES_PER_RUN /\ replies_sent = runReplies)
    /\ [][(hpc # "idle" /\ replies_sent >= MAX_REPLIES_PER_RUN)
            => /\ hpc' = "idle"
               /\ hstate'.replied_to_comments =
                     (IF hpc = "inbox" THEN replied_to ELSE hstate.replied_to_comments)
               /\ hstate'.summon_responses =
                     (IF hpc = "inbox" THEN hstate.summon_responses
                                       ELSE summon_responses)]_vars

\* The summon scan has hit the cap on its first comment, the second one unmarked.
C7_CapHitEarly ==
    /\ hpc = "summon_comments"
    /\ replies_sent = MAX_REPLIES_PER_RUN
    /\ idx <= NumItems
    /\ SummonId("summon_comments", idx) \notin summon_responses
    /\ is_summon(summon_profile.body)

\* C8: a live invocation that starts with daily_tldrs = 5 for today, finds both
\* posts unseen, recent and above the threshold, and whose external calls all
\* return, ends Phase 1 with one generator call, one reply, the first post in
\* processed_posts, daily_tldrs = 6 and the second post neither processed nor marked.
C8_EndToEnd ==
    ( /\ pc = "check2"
      /\ ~dry_run
      /\ lastCheck.ok
      /\ lastCheck.count = 5
      /\ lastCheck.date = lastCheck.day
      /\ file.processed_posts = {}
      /\ \A p \in Posts : post_words[p] >= WORD_THRESHOLD /\ ~is_too_old(post_created[p])
      /\ genCalls = tldrs_generated /\ runReplies = tldrs_generated )
    => /\ genCalls = 1
       /\ runReplies = 1
       /\ processed_posts = {posts_to_check[1]}
       /\ state.daily_tldrs = 6
       /\ posts_to_check[2] \notin processed_posts

\* The scenario has happened: Phase 1 is over after one TLDR, from 5 to 6.
C8_Scenario ==
    /\ pc = "check2"
    /\ ~dry_run
    /\ lastCheck.ok
    /\ lastCheck.count = 5
    /\ lastCheck.date = lastCheck.day
    /\ file.processed_posts = {}
    /\ \A p \in Posts : post_words[p] >= WORD_THRESHOLD /\ ~is_too_old(post_created[p])
    /\ genCalls = 1
    /\ runReplies = 1
    /\ <<"post", posts_to_check[1]>> \in replied
    /\ state.daily_tldrs = 6

\* C9: check_user_cooldown answers true exactly when the author is not None, has
\* an entry, the entry's count (0 if absent) is at least
\* SAME_USER_REPLIES_BEFORE_COOLDOWN and the time since its first_reply_time (0 if
\* absent) is strictly under SAME_USER_COOLDOWN_HOURS; both copies answer alike.
C9_CooldownPredicate ==
    cooldown_answer.called =>
        LET a == inbox_profile.author
            m == recent_user_replies
        IN /\ cooldown_answer.rh <=>
                /\ a # NoAuthor
                /\ a \in DOMAIN m
                /\ Get(m[a], "count", 0) >= SAME_USER_REPLIES_BEFORE_COOLDOWN
                /\ now - Get(m[a], "first_reply_time", 0)
                       < SAME_USER_COOLDOWN_HOURS * TicksPerHour
           /\ cooldown_answer.sh = cooldown_answer.rh

\* Both copies have answered true, one tick before the window ends.
C9_OnCooldown ==
    /\ cooldown_answer.called
    /\ cooldown_answer.rh
    /\ cooldown_answer.sh
    /\ now - recent_user_replies[inbox_profile.author].first_reply_time
           = SAME_USER_COOLDOWN_HOURS * TicksPerHour - 1

\* The replies that have been sent to author a.
RepliesTo(a) ==
    Cardinality({ x \in replied :
                    (IF x[1] = "inbox" THEN inbox_profile.author
                                       ELSE summon_profile.author) = a })

\* C10: the cooldown record counts the replies sent to a user, and for a user who
\* is not a moderator a candidate is not skipped while fewer than 2 replies are on
\* record, is skipped with 2 on record less than 1h after the first reply's
\* timestamp, and is admitted with 2 on record at 1h or more after it.
C10_CooldownProgression ==
    /\ LET rec == IF hpc = "idle" THEN hstate.recent_user_replies ELSE recent_user_replies
       IN \A a \in {"alice", "ModUser"} :
             RepliesTo(a) = (IF a \in DOMAIN rec THEN rec[a].count ELSE 0)
    /\ (lastGate # NoGate /\ ~lastGate.is_mod) =>
          /\ lastGate.count < SAME_USER_REPLIES_BEFORE_COOLDOWN => ~lastGate.skip
          /\ ( /\ lastGate.count = SAME_USER_REPLIES_BEFORE_COOLDOWN
               /\ lastGate.t - lastGate.first < SAME_USER_COOLDOWN_HOURS * TicksPerHour )
             => lastGate.skip
          /\ ( /\ lastGate.count = SAME_USER_REPLIES_BEFORE_COOLDOWN
               /\ lastGate.t - lastGate.first >= SAME_USER_COOLDOWN_HOURS * TicksPerHour )
             => ~lastGate.skip

\* A third candidate of the inbox has been admitted once the hour was over.
C10_ThirdAdmitted ==
    /\ hpc = "inbox"
    /\ lastGate # NoGate
    /\ ~lastGate.is_mod
    /\ lastGate.count = SAME_USER_REPLIES_BEFORE_COOLDOWN
    /\ lastGate.t - lastGate.first >= SAME_USER_COOLDOWN_HOURS * TicksPerHour
    /\ ~lastGate.skip
    /\ RepliesTo(lastGate.author) = SAME_USER_REPLIES_BEFORE_COOLDOWN + 1

\* The cooldown map as the handlers hold it: the call's own while one runs.
CooldownRecords == IF hpc = "idle" THEN hstate.recent_user_replies ELSE recent_user_replies

\* The author of the item the handler call is looking at.
CurrentAuthor == IF hpc = "inbox" THEN inbox_profile.author ELSE summon_profile.author

\* C11: every user's count is at least 1; no entry disappears; a count grows by
\* exactly 1 in a step that replies to that user and stays as it is in every
\* other step; an entry appears with count 1 in a reply step; the
\* first_reply_time of an existing entry changes, if ever, only in a reply step
\* taken when the entry's window has fully expired.
C11_CooldownRecord ==
    /\ [](\A a \in DOMAIN CooldownRecords : CooldownRecords[a].count >= 1)
    /\ [][/\ \A a \in DOMAIN CooldownRecords :
               /\ a \in DOMAIN CooldownRecords'
               /\ CooldownRecords'[a].count =
                     CooldownRecords[a].count
                       + (IF ReplyStep /\ CurrentAuthor = a THEN 1 ELSE 0)
               /\ CooldownRecords'[a].first_reply_time
                     # CooldownRecords[a].first_reply_time
                  => /\ ReplyStep
                     /\ now - CooldownRecords[a].first_reply_time
                          >= SAME_USER_COOLDOWN_HOURS * TicksPerHour
          /\ \A a \in DOMAIN CooldownRecords' \ DOMAIN CooldownRecords :
               /\ ReplyStep
               /\ CurrentAuthor = a
               /\ CooldownRecords'[a].count = 1]_vars

\* A second reply to the same user, one tick after the first, has just been counted.
C11_SecondReplyCounted ==
    /\ hpc # "idle"
    /\ runReplies = 1
    /\ "alice" \in DOMAIN recent_user_replies
    /\ recent_user_replies["alice"].count = 2
    /\ recent_user_replies["alice"].first_reply_time = now - 1

\* The moderator set the last is_moderator call worked with: the cached list,
\* lower-cased, as that call left it in the state dict.
ModeratorSet == { Lower(m) : m \in hstate.moderator_cache.moderators }

\* C12: whenever the cooldown gate of the inbox, comment-summon or post-summon
\* scan has decided about an author whose lower-cased name is in the moderator
\* set, the decision is not to skip, whatever count and window say.
C12_ModeratorBypass ==
    (lastGate # NoGate /\ Lower(lastGate.author) \in ModeratorSet) => ~lastGate.skip

\* A moderator with 2 replies on record inside the window has got a third reply.
C12_ModeratorThirdReply ==
    /\ hpc # "idle"
    /\ lastGate # NoGate
    /\ Lower(lastGate.author) \in ModeratorSet
    /\ lastGate.is_mod
    /\ lastGate.count >= SAME_USER_REPLIES_BEFORE_COOLDOWN
    /\ lastGate.t - lastGate.first < SAME_USER_COOLDOWN_HOURS * TicksPerHour
    /\ ~lastGate.skip
    /\ runReplies = 1
    /\ RepliesTo(lastGate.author) = lastGate.count + 1

\* Whether item x of a handler stream is in that stream's dedup set, the call's
\* own set while it scans that stream's ledger.
Marked(x) ==
    IF x[1] = "inbox"
    THEN x[2] \in (IF hpc = "inbox" THEN replied_to ELSE hstate.replied_to_comments)
    ELSE SummonId(x[1], x[2]) \in
            (IF hpc \in {"summon_comments", "summon_posts"}
             THEN summon_responses ELSE hstate.summon_responses)

\* The scan stands at an item that has passed every test before the cooldown gate.
AtGate ==
    \/ hpc = "inbox" /\ InboxAtGate
    \/ hpc \in {"summon_comments", "summon_posts"} /\ SummonAtGate(hpc)

\* The cooldown window of the current item's author is over.
WindowElapsed ==
    /\ CurrentAuthor \in DOMAIN recent_user_replies
    /\ now - recent_user_replies[CurrentAuthor].first_reply_time
          >= SAME_USER_COOLDOWN_HOURS * TicksPerHour

\* C13: a cooldown skip adds nothing to a dedup set, and the skipped item stays
\* unmarked; when a later live scan stands at such an item (still listed, within
\* the age limit, under the run cap) with the window over, its next step calls the
\* generator for it, and a reply that returns is a reply to that item.
C13_RetryEligible ==
    /\ [](\A x \in cooldown_skipped : ~Marked(x))
    /\ [][/\ (cooldown_skipped' # cooldown_skipped /\ <<hpc, idx>> \in cooldown_skipped')
             => /\ replied_to' = replied_to
                /\ summon_responses' = summon_responses
                /\ hstate'.replied_to_comments = hstate.replied_to_comments
                /\ hstate'.summon_responses = hstate.summon_responses
          /\ (AtGate /\ <<hpc, idx>> \in cooldown_skipped /\ ~h_dry_run /\ WindowElapsed)
             => /\ genCalls' = genCalls + 1
                /\ idx' = idx + 1
                /\ ReplyStep => <<hpc, idx>> \in replied']_vars

\* A live scan stands at an item it passed over earlier, and the window is over.
C13_RetryDue ==
    /\ AtGate
    /\ <<hpc, idx>> \in cooldown_skipped
    /\ ~h_dry_run
    /\ WindowElapsed
    /\ ~Marked(<<hpc, idx>>)

\* The text of the item the handler call is looking at.
CurrentBody == IF hpc = "inbox" THEN inbox_profile.body ELSE summon_profile.body

\* The scan stands at an item that is new, within the age limit and addressed to
\* the bot: a candidate for a reply.
Candidate ==
    \/ hpc = "inbox" /\ InboxPastSkips
    \/ hpc \in {"summon_comments", "summon_posts"} /\ SummonPastSkips(hpc)

\* C14: in each of the three handler streams, the step taken for a candidate whose
\* author is missing or empty or matches a bot pattern, or whose text matches a
\* hostile pattern, adds the item to the stream's dedup set, calls neither the
\* generator nor reply(), and leaves the cooldown records and the per-run and
\* daily reply counters as they were.
C14_TerminalSkip ==
    [][(/\ Candidate
        /\ \/ NoName(CurrentAuthor)
           \/ MatchesBotIndicator(CurrentAuthor)
           \/ is_hostile_comment(CurrentBody))
       => /\ IF hpc = "inbox" THEN idx \in replied_to'
             ELSE SummonId(hpc, idx) \in summon_responses'
          /\ genCalls' = genCalls
          /\ replied' = replied
          /\ runReplies' = runReplies
          /\ recent_user_replies' = recent_user_replies
          /\ replies_sent' = replies_sent
          /\ hstate' = hstate]_vars

\* The inbox scan has passed an item without an author, marked and unanswered.
C14_NoAuthorMarked ==
    /\ hpc = "inbox"
    /\ inbox_profile.author = NoAuthor
    /\ idx = 2
    /\ 1 \in replied_to
    /\ <<"inbox", 1>> \notin replied
    /\ replies_sent = 0

\* C15: the step taken for a listed comment of the summon scan that is rejected as
\* too old, deleted or the bot's own puts the comment's id into summon_responses,
\* so that later calls do not evaluate it again.
C15_RejectionsMarked ==
    [][(/\ SummonAt("summon_comments")
        /\ SummonId(hpc, idx) \notin summon_responses
        /\ \/ rh_is_too_old(item_created)
           \/ summon_profile.author = bot_username
           \/ summon_profile.body = "deleted")
       => SummonId(hpc, idx) \in summon_responses']_vars

\* The summon scan has passed a deleted comment and has not recorded it.
C15_DeletedCommentPassed ==
    /\ hpc = "summon_comments"
    /\ idx = 2
    /\ summon_profile.body = "deleted"
    /\ SummonId(hpc, 1) \notin summon_responses

\* C16: a Phase 1 step in which the generator is called and reply() does not
\* return (generate_tldr or submission.reply raised) puts the post into
\* processed_posts, goes on with the loop, and leaves the per-run counter and the
\* quota record as they were.
C16_FailureRecovery ==
    [][(pc = "phase1" /\ genCalls' = genCalls + 1 /\ runReplies' = runReplies)
       => /\ posts_to_check[i] \in processed_posts'
          /\ pc' \in {"phase1", "check2"}
          /\ tldrs_generated' = tldrs_generated
          /\ state' = state]_vars

\* The generator or reply() has failed for the first post, and Phase 1 has moved
\* on without recording the post.
C16_FailedPostUnmarked ==
    /\ pc = "phase1"
    /\ i = 2
    /\ genCalls = 1
    /\ runReplies = 0
    /\ posts_to_check[1] \notin processed_posts

\* The ladder values that comment count c has reached and watermark w has not.
OpenMilestones(c, w) ==
    { COMMENT_MILESTONES[k] : k \in { n \in DOMAIN COMMENT_MILESTONES :
                                        COMMENT_MILESTONES[n] <= c /\ COMMENT_MILESTONES[n] > w } }

\* C17: get_next_milestone(c, w) is the highest ladder value that is at most c and
\* greater than w, and 0 when there is none; 45 comments over watermark 0 give 20,
\* and 63 comments over watermark 20 give 50.
C17_MilestoneSelection ==
    milestone_answer.called =>
        LET c == milestone_answer.comment_count
            w == milestone_answer.last_milestone
            r == milestone_answer.result
        IN /\ IF OpenMilestones(c, w) = {} THEN r = 0
              ELSE /\ r \in OpenMilestones(c, w)
                   /\ \A m \in OpenMilestones(c, w) : m <= r
           /\ (c = 45 /\ w = 0) => r = 20
           /\ (c = 63 /\ w = 20) => r = 50

\* get_next_milestone has answered 50 for 63 comments over watermark 20.
C17_SecondMilestone ==
    /\ milestone_answer.called
    /\ milestone_answer.comment_count = 63
    /\ milestone_answer.last_milestone = 20
    /\ milestone_answer.result = 50

\* comment_summaries.get(post_id, 0): the running invocation's dict, and between
\* invocations the saved one.
Watermark == IF pc = "idle" THEN file.comment_summaries ELSE comment_summaries

\* C18: over invocations between which the comment counts rise and fall, a post's
\* watermark is 0 (no entry) or a ladder value, no step lowers it, and a step that
\* changes it to v sees num_comments >= v for that post.
C18_WatermarkInvariant ==
    /\ [](\A p \in Posts :
            \/ Watermark[p] = 0
            \/ \E k \in DOMAIN COMMENT_MILESTONES : Watermark[p] = COMMENT_MILESTONES[k])
    /\ [][\A p \in Posts :
            /\ Watermark'[p] >= Watermark[p]
            /\ Watermark'[p] # Watermark[p] => num_comments[p] >= Watermark'[p]]_vars

\* Phase 2 has passed the first post, whose count has fallen to the first rung
\* after its summary for the last rung was recorded.
C18_CountFellBelowWatermark ==
    /\ pc = "phase2"
    /\ i = 2
    /\ ~dry_run
    /\ comment_summaries[1] = 100
    /\ num_comments[1] = 20

\* C19, as stated: a step changes a post's watermark only if it emits a discussion
\* summary, and a Phase 2 step that emits none leaves the watermarks and
\* daily_tldrs as they were.
C19_WatermarkWithSummary ==
    [][/\ \A p \in Posts : Watermark'[p] # Watermark[p] => runSummaries' = runSummaries + 1
       /\ (pc = "phase2" /\ runSummaries' = runSummaries)
          => /\ comment_summaries' = comment_summaries
             /\ state'.daily_tldrs = state.daily_tldrs]_vars

\* C19, for live invocations: a step of a live invocation changes a post's
\* watermark only if it emits a discussion summary, and a live Phase 2 step that
\* emits none (failure, fewer than 5 comments, no text) leaves the watermarks and
\* daily_tldrs as they were; a dry run records the milestone without a summary
\* and without counting it.
C19_LiveWatermarkWithSummary ==
    [][/\ \A p \in Posts :
            Watermark'[p] # Watermark[p]
            => IF dry_run THEN runSummaries' = runSummaries /\ state' = state
               ELSE runSummaries' = runSummaries + 1
       /\ (pc = "phase2" /\ ~dry_run /\ runSummaries' = runSummaries)
          => /\ comment_summaries' = comment_summaries
             /\ state'.daily_tldrs = state.daily_tldrs]_vars

\* A live invocation has emitted the summary for the first rung of the first post
\* and recorded the rung.
C19_SummaryRecorded ==
    /\ pc # "idle"
    /\ ~dry_run
    /\ runSummaries = 1
    /\ comment_summaries[1] = 20
    /\ file.comment_summaries[1] = 0

\* The posts whose watermark the running invocation has changed.
AdvancedPosts == { p \in Posts : comment_summaries[p] # file.comment_summaries[p] }

\* C20: one invocation advances the watermark of at most one post and emits at
\* most one discussion summary, however many posts have crossed a new rung.
C20_OneSummaryPerRun ==
    pc # "idle" => /\ Cardinality(AdvancedPosts) <= 1
                   /\ runSummaries <= 1

\* A live invocation has emitted two discussion summaries.
C20_SecondSummaryInRun ==
    /\ pc # "idle"
    /\ ~dry_run
    /\ runSummaries = 2

\* How far the run has come: odd numbers while a stream is being processed, even
\* ones between two streams.
Position ==
    CASE stage = "start" -> 0
      [] stage = "inbox" -> IF hpc = "inbox" THEN 1 ELSE 2
      [] stage = "summons" -> IF hpc = "summon_comments" THEN 3
                              ELSE IF hpc = "summon_posts" THEN 5 ELSE 6
      [] stage = "tldr" -> CASE pc = "phase1" -> 7
                             [] pc = "check2" -> 8
                             [] pc = "phase2" -> 9
                             [] pc = "check3" -> 10
                             [] pc = "phase3" -> 11
                             [] pc = "save" -> 12
                             [] pc = "idle" -> 13

\* The position at which the items of a stream are processed.
StreamPosition(stream) ==
    CASE stream = "inbox" -> 1
      [] stream = "summon_comments" -> 3
      [] stream = "summon_posts" -> 5
      [] stream = "post" -> 7
      [] stream = "comment" -> 11

C22_BoundedLedger ==
    /\ Cardinality(ledger.file) <= LedgerKeep
    /\ Cardinality(ledger.set) <= LedgerKeep

\* C22, for the saved list: the saved list holds at most K ids at all times; the
\* set of a running invocation holds at most K ids and the ids marked in that
\* invocation, and is cut to K when the invocation saves.
C22_BoundedSavedLedger ==
    /\ Cardinality(ledger.file) <= LedgerKeep
    /\ Cardinality(ledger.set) <= LedgerKeep + ledger.marks
    /\ ~ledger.active => ledger.set = {}

\* More than K ids have been marked, and the invocation has saved K of them.
C22_CutAtSave ==
    /\ ~ledger.active
    /\ Len(ledger.order) > LedgerKeep
    /\ Cardinality(ledger.file) = LedgerKeep

\* The last n entries of seq, as a set.
LastOf(seq, n) == { seq[k] : k \in { m \in DOMAIN seq : m > Len(seq) - n } }

\* C23: once more than K ids have been marked, the saved list holds exactly K ids,
\* and they are the K ids marked last.
C23_OldestFirstEviction ==
    (~ledger.active /\ Len(ledger.order) > LedgerKeep)
    => /\ Cardinality(ledger.file) = LedgerKeep
       /\ ledger.file = LastOf(ledger.order, LedgerKeep)

\* The id marked last in an invocation is missing from the list it saved.
C23_NewestEvicted ==
    /\ ~ledger.active
    /\ ledger.marks > 0
    /\ ledger.last \notin ledger.file

\* C24: a mark puts the id into the set, and the mark of an id that is in the set
\* already leaves the set as it is: same members, same size.
C24_MarkIdempotent ==
    [][ledger'.marks = ledger.marks + 1
       => /\ ledger'.last \in ledger'.set
          /\ ledger'.last \in ledger.set
             => /\ ledger'.set = ledger.set
                /\ Cardinality(ledger'.set) = Cardinality(ledger.set)]_vars

\* One id has been marked twice in an invocation that started with no ids.
C24_MarkedTwice ==
    /\ ledger.active
    /\ ledger.marks = 2
    /\ ledger.set = {ledger.last}
    /\ Len(ledger.order) = 1


(* ------------------------------------------------------------------ *)
(* Moderator cache                                                      *)
(* ------------------------------------------------------------------ *)
ModCallIs(fn) == mod_call.fn = fn

\* The two handlers carry the same get_cached_moderators and is_moderator.
BothHandlers(P(_)) == P(mod_call.rh) /\ P(mod_call.sh)

LoweredNames(names) == {Lower(m) : m \in names}

RefreshDue(cache, t) ==
    cache.moderators = {} \/ t - cache.last_refresh >= MOD_CACHE_REFRESH_DAYS * TicksPerDay

\* C25: when get_cached_moderators attempts a refresh and the moderator
\* listing raises, it returns the lower-cased previously cached names (none
\* when nothing was cached) and leaves state["moderator_cache"] as it was.
C25_StaleOnError ==
    (ModCallIs("get_cached_moderators") /\ mod_call.rh.called /\ ~mod_call.fetch_ok) =>
        LET Stale(r) == /\ r.mods = LoweredNames(mod_call.before.moderators)
                        /\ r.cache = mod_call.before
        IN /\ BothHandlers(Stale)
           /\ hstate.moderator_cache = mod_call.before

C25_StaleListServed ==
    /\ ModCallIs("get_cached_moderators")
    /\ mod_call.rh.called /\ ~mod_call.fetch_ok
    /\ mod_call.before.moderators = {"alice"}
    /\ mod_call.rh.mods = {"alice"}

\* C26: get_cached_moderators calls the moderator source exactly when the
\* cached list is empty or MOD_CACHE_REFRESH_DAYS days or more have passed
\* since last_refresh; a successful refresh replaces the cached list by the
\* fetched one and sets last_refresh to now; in every other case the cache
\* is unchanged.
C26_RefreshRule ==
    ModCallIs("get_cached_moderators") =>
        LET Rule(r) ==
              /\ r.called <=> RefreshDue(mod_call.before, mod_call.t)
              /\ (r.called /\ mod_call.fetch_ok) =>
                     r.cache = [moderators |-> RedditMods, last_refresh |-> mod_call.t]
              /\ ~(r.called /\ mod_call.fetch_ok) => r.cache = mod_call.before
        IN /\ BothHandlers(Rule)
           /\ hstate.moderator_cache = mod_call.rh.cache

C26_StaleListReplaced ==
    /\ ModCallIs("get_cached_moderators")
    /\ mod_call.rh.called /\ mod_call.fetch_ok
    /\ mod_call.before.moderators = {"alice"}
    /\ mod_call.t - mod_call.before.last_refresh = MOD_CACHE_REFRESH_DAYS * TicksPerDay
    /\ hstate.moderator_cache.moderators = RedditMods

\* C27: moderator_cache.last_refresh never decreases, whatever calls are made
\* and whether their refreshes succeed or fail.
C27_LastRefreshMonotone ==
    [][hstate'.moderator_cache.last_refresh >= hstate.moderator_cache.last_refresh]_vars

C27_FailedThenRefreshed ==
    /\ ~ModCallIs("none")
    /\ mod_call.rh.called /\ mod_call.fetch_ok
    /\ mod_call.before.last_refresh > 0
    /\ hstate.moderator_cache.last_refresh > mod_call.before.last_refresh

\* C28: is_moderator answers false for a missing or empty author without
\* consulting or refreshing the cache; for any other author it answers true
\* exactly when the lower-cased author equals the lower-cased name of a
\* cached moderator.
C28_IsModerator ==
    ModCallIs("is_moderator") =>
        LET Answer(r) ==
              IF NoName(mod_call.author)
              THEN ~r.is_mod /\ ~r.called /\ r.cache = mod_call.before
              ELSE r.is_mod <=>
                     \E m \in r.cache.moderators : Lower(mod_call.author) = Lower(m)
        IN BothHandlers(Answer)

C28_CaseInsensitiveMatch ==
    /\ ModCallIs("is_moderator")
    /\ mod_call.author = "moduser"
    /\ mod_call.rh.is_mod
    /\ "moduser" \notin hstate.moderator_cache.moderators


(* ------------------------------------------------------------------ *)
(* Dry run                                                              *)
(* ------------------------------------------------------------------ *)
\* A step of main, from the load of the state to save_state, with --dry-run.
DryMainStep ==
    \/ pc = "idle" /\ pc' # "idle" /\ dry_run'
    \/ pc # "idle" /\ dry_run

\* A step of a handler call with dry_run=True.
DryHandlerStep ==
    \/ hpc = "idle" /\ hpc' # "idle" /\ h_dry_run'
    \/ hpc # "idle" /\ h_dry_run

\* What a dry run emits and counts, the daily TLDR count apart: nothing.
DryRunSilent ==
    /\ DryMainStep =>
          /\ replied' = replied
          /\ genCalls' = 0 /\ runReplies' = 0 /\ runSummaries' = 0
          /\ tldrs_generated' = 0
    /\ DryHandlerStep =>
          /\ replied' = replied
          /\ replies_sent' = 0
          /\ hstate'.daily_replies = hstate.daily_replies
          /\ hstate'.recent_user_replies = hstate.recent_user_replies
          /\ hpc' # "idle" => recent_user_replies' = hstate.recent_user_replies

\* The daily TLDR count the dry run holds, then saves.
DryDaily == IF pc' = "idle" THEN file' ELSE state'

LiveRecord ==
    [ made |-> TRUE, processed_posts |-> file.processed_posts,
      processed_comments |-> file.processed_comments,
      comment_summaries |-> file.comment_summaries ]

\* C30: started from the same persisted state and the same candidates, a dry
\* run records the same ids and the same watermarks as a live run whose
\* external calls all succeed.
C30_DryEqualsLive ==
    stage = "done" => dry_record = LiveRecord

C30_DryRunMarksMore ==
    /\ stage = "done"
    /\ dry_record.processed_posts = {1, 2}
    /\ file.processed_posts = {1}
    /\ \E c \in Comments : c \in dry_record.processed_comments /\ c \notin file.processed_comments


(* ------------------------------------------------------------------ *)
(* Persistence                                                          *)
(* ------------------------------------------------------------------ *)
\* C31: the state record is written only by save_state at the end of a live
\* invocation, after all streams are finished; a dry-run invocation does not
\* write it.
C31_PersistOnceOrNotAtAll ==
    [][(file' # file) => (pc = "save" /\ pc' = "idle" /\ ~dry_run)]_vars

C31_DryRunWroteState ==
    /\ pc = "idle"
    /\ replied = {}
    /\ file.processed_posts # {}


\* C32: an invocation killed before save_state leaves the state file as it was
\* when the invocation started (nothing but save_state writes it, so no mark,
\* quota spend or watermark of the run survives), while the replies it posted
\* remain; the next invocation can answer such an item again.
C32_CrashLosesRun ==
    [][/\ (file' # file) => (pc = "save" /\ pc' = "idle")
       /\ replied \subseteq replied'
       /\ (killed' # killed) =>
             /\ file' = file
             /\ state' = [daily_tldrs |-> file.daily_tldrs,
                          daily_reset_date |-> file.daily_reset_date]
             /\ \A item \in killed' \ killed :
                   item \in replied' /\ ~RecordedInFile(item)]_vars

C32_AnsweredAgain ==
    \E p \in Posts :
       /\ <<"post", p>> \in killed
       /\ pc # "idle" /\ ~dry_run
       /\ runReplies = 1
       /\ p \in processed_posts
       /\ p \notin file.processed_posts


\* C33: when save_state ends, completed or interrupted part-way, the state
\* file holds the complete previous record or the complete new record, never
\* a partial or empty one.
C33_AllOrNothingSave ==
    [][(persist.pc = "writing" /\ persist'.pc = "exited") =>
          \/ /\ persist'.text = Dump(StateFields)
             /\ persist'.version = persist.version
          \/ /\ persist'.exists = persist.before.exists
             /\ persist'.text = persist.before.text
             /\ persist'.version = persist.before.version]_vars

C33_EmptyFileAfterInterrupt ==
    /\ persist.pc = "exited"
    /\ persist.interrupted
    /\ persist.text = << >>
    /\ persist.before.text = Dump(StateFields)

\* C34: load_state returns a record holding every key the run reads, whether
\* the state file is absent, unreadable, invalid JSON or valid JSON lacking
\* keys; an invocation never fails on a missing key.
C34_LoadSuppliesDefaults ==
    /\ persist.loaded # NoLoad => persist.loaded.keys = Keys(StateFields)
    /\ persist.failed = "none"

C34_KeyErrorOnStats ==
    /\ persist.pc = "exited"
    /\ persist.failed = "stats"
    /\ persist.loaded.keys = Keys(KeysWithout("stats"))


\* C35: when a required credential variable is missing, the invocation exits
\* with a non-zero code before it connects, loads the state or writes
\* anything; every other invocation that reaches its end exits normally.
C35_FailFastOnConfiguration ==
    /\ persist.env # RequiredVars =>
          /\ persist.did = << >>
          /\ persist.pc = "exited" => persist.exit = 1
          /\ persist.text = persist.before.text /\ persist.saves = 0
    /\ (/\ persist.env = RequiredVars
        /\ persist.pc = "exited"
        /\ persist.did = << "connect", "load", "run", "save" >>
        /\ ~persist.interrupted) => persist.exit = 0

C35_ExitedOnMissingKey ==
    /\ persist.pc = "exited"
    /\ persist.env = RequiredVars \ {"GEMINI_API_KEY"}
    /\ persist.exit = 1


(* ------------------------------------------------------------------ *)
(* Authors                                                              *)
(* ------------------------------------------------------------------ *)
\* C36: no response is ever emitted to an item whose author is the bot's own
\* account, is null or deleted, or matches a bot pattern; here for the
\* long-comment stream.
C36_NoReplyToSelfOrBot ==
    \A c \in Comments :
       <<"comment", c>> \in replied => comment_kind[c] \notin {"own", "deleted", "bot", "orphan"}

C36_BotCommentAnswered ==
    \E c \in Comments :
       /\ <<"comment", c>> \in replied
       /\ comment_kind[c] = "bot"
       /\ c \in processed_comments


(* ------------------------------------------------------------------ *)
(* Cooldown records                                                     *)
(* ------------------------------------------------------------------ *)
\* Every user of the old records is in the new ones with the same first_reply_time.
FirstReplyTimeKept(old, new) ==
    \A a \in DOMAIN old :
       /\ a \in DOMAIN new
       /\ Get(new[a], "first_reply_time", 0) = Get(old[a], "first_reply_time", 0)

\* C37: first_reply_time is written when a user's entry is created and never
\* afterwards, and no entry is removed; a cooldown check made when
\* SAME_USER_COOLDOWN_HOURS or more have passed since the user's first recorded
\* reply answers false, whatever the count.
C37_OneShotCooldown ==
    /\ []((lastGate # NoGate
            /\ lastGate.t - lastGate.first >= SAME_USER_COOLDOWN_HOURS * TicksPerHour)
           => ~lastGate.skip)
    /\ [][/\ FirstReplyTimeKept(hstate.recent_user_replies, hstate'.recent_user_replies)
          /\ (hpc # "idle" /\ hpc' # "idle")
                => FirstReplyTimeKept(recent_user_replies, recent_user_replies')
          /\ (hpc = "idle" /\ hpc' # "idle")
                => recent_user_replies' = hstate.recent_user_replies]_vars

C37_RepliedAfterWindow ==
    /\ lastGate # NoGate
    /\ ~lastGate.is_mod /\ ~lastGate.skip
    /\ lastGate.count >= SAME_USER_REPLIES_BEFORE_COOLDOWN
    /\ lastGate.t - lastGate.first >= SAME_USER_COOLDOWN_HOURS * TicksPerHour
    /\ lastGate.author \in DOMAIN recent_user_replies
    /\ recent_user_replies[lastGate.author].count = lastGate.count + 1
    /\ recent_user_replies[lastGate.author].first_reply_time = lastGate.first

\* The author of the item the running call is looking at.
StreamAuthor == IF hpc = "inbox" THEN inbox_profile.author ELSE summon_profile.author

\* The number of replies on record for a user, 0 for a user without a record.
CountOn(recent_replies, author_name) ==
    IF author_name \in DOMAIN recent_replies
    THEN Get(recent_replies[author_name], "count", 0) ELSE 0

\* C38: the inbox, comment-summon and post-summon streams read and update the
\* same recent_user_replies entry of a user: a call starts from the record the
\* state holds and leaves its own in the state; every successful reply, one to
\* a moderator included, adds exactly 1 to the author's count and touches no
\* other user's record; a skipped, failed or dry-run candidate changes nothing.
C38_OneRecordPerUser ==
    [][/\ (hpc = "idle" /\ hpc' # "idle")
            => recent_user_replies' = hstate.recent_user_replies
       /\ (hpc # "idle" /\ hpc' = "idle")
            => hstate'.recent_user_replies = recent_user_replies
       /\ (hstate'.recent_user_replies # hstate.recent_user_replies)
            => (hpc # "idle" /\ hpc' = "idle")
       /\ (hpc # "idle" /\ hpc' # "idle")
            => IF runReplies' = runReplies + 1
               THEN /\ CountOn(recent_user_replies', StreamAuthor)
                          = CountOn(recent_user_replies, StreamAuthor) + 1
                    /\ DOMAIN recent_user_replies' = DOMAIN recent_user_replies \cup {StreamAuthor}
                    /\ \A a \in DOMAIN recent_user_replies \ {StreamAuthor} :
                          recent_user_replies'[a] = recent_user_replies[a]
               ELSE recent_user_replies' = recent_user_replies]_vars

\* A moderator answered in the inbox is answered again in the post scan, and
\* the second reply is counted on the record the first one made.
C38_ModeratorCountedAcrossStreams ==
    /\ hpc = "summon_posts"
    /\ replies_sent = 1
    /\ lastGate # NoGate
    /\ lastGate.is_mod
    /\ lastGate.count >= 1
    /\ lastGate.author \in DOMAIN recent_user_replies
    /\ recent_user_replies[lastGate.author].count = lastGate.count + 1
    /\ \E n \in 1..NumItems : <<"inbox", n>> \in replied
    /\ \E n \in 1..NumItems : <<"summon_posts", n>> \in replied

\* The responses the running invocation has emitted: post TLDRs, comment TLDRs
\* and discussion summaries.
Emitted == runReplies + runSummaries

\* C39: within one calendar date daily_tldrs grows by exactly 1 for each
\* emitted post TLDR, discussion summary or comment TLDR and by nothing else,
\* so that the increase of a run is the number of responses it emitted.
C39_DailyCounterAccounting ==
    [][(pc # "idle" /\ pc' # "idle" /\ state'.daily_reset_date = state.daily_reset_date)
          => state'.daily_tldrs - state.daily_tldrs = Emitted' - Emitted]_vars

\* A live run on the date of its state file is about to save: one post TLDR
\* is out, and daily_tldrs is what the file held.
C39_EmittedUncounted ==
    /\ pc = "save"
    /\ ~dry_run
    /\ runReplies = 1
    /\ runSummaries = 0
    /\ \E p \in Posts : <<"post", p>> \in replied /\ p \notin processed_posts
    /\ state.daily_reset_date = file.daily_reset_date
    /\ state.daily_tldrs = file.daily_tldrs

\* The rungs of the ladder.
Rungs == { COMMENT_MILESTONES[k] : k \in DOMAIN COMMENT_MILESTONES }

\* C40: a watermark that changes jumps to the highest rung the comment count
\* has crossed, and a discussion summary is emitted only for a rung above the
\* post's watermark, above every rung summarized for the post before and not
\* summarized before: at most one summary per rung, so at most 3 per post.
C40_SkippedRungsNeverFire ==
    [][/\ \A p \in Posts :
            Watermark'[p] # Watermark[p]
            => Watermark'[p] = HighestCrossed(num_comments[p], 1, 0)
       /\ (runSummaries' = runSummaries + 1)
            => LET p == posts_to_check[i]
                   v == next_milestone
               IN /\ v \in Rungs
                  /\ v = HighestCrossed(num_comments[p], 1, 0)
                  /\ v > Watermark[p]
                  /\ <<p, v>> \notin summarized
                  /\ \A w \in Rungs : <<p, w>> \in summarized => w < v
                  /\ summarized' = summarized \cup {<<p, v>>}]_vars

\* A live invocation is at a post whose summary for the first rung is out
\* since an earlier invocation, and the rung is due again.
C40_SummaryDueAgain ==
    /\ Phase2Eligible
    /\ ~dry_run
    /\ runSummaries = 0
    /\ next_milestone = 20
    /\ <<posts_to_check[i], 20>> \in summarized
    /\ file.comment_summaries[posts_to_check[i]] = 0

====
